---------------------------- MODULE Spec2Model ----------------------------
(***************************************************************************)
(* Model of the cache-and-sync core of anneal: the SQLite Store            *)
(* (internal/storage), the Syncer built on it, and the remote JMAP client  *)
(* the Syncer talks to.                                                    *)
(*                                                                         *)
(* Tables are functions from primary key to row; email_mailboxes is a set  *)
(* of <<email_id, mailbox_id>> pairs (its key is the pair).  A Go string   *)
(* state token is a natural number, the empty string being EmptyToken.     *)
(* Columns that the code only copies from the fetched record into the row  *)
(* and back (preview, size, the address lists, is_draft, has_attachment,   *)
(* parent_id, total_emails, unread_count) are represented by one of their  *)
(* kind: Subject for emails and Name for mailboxes.                        *)
(***************************************************************************)
EXTENDS Integers, Sequences, FiniteSets, Bags, TLC

(***************************************************************************)
(* Bounds of the model.                                                    *)
(***************************************************************************)
MaxSteps == 3           \* remote changes, Syncer calls and clock ticks in one behaviour
MaxStmt == 2            \* highest statement index a storage failure is injected at
MaxOp == 4              \* highest Store call index a storage failure is injected at
MaxStoreOps == 1        \* Store calls and clock ticks in one behaviour of the Store alone
MaxList == 2            \* longest argument list handed to a Store call
MaxReads == 1           \* reads in one behaviour of the concurrent Store
MaxEvents == 1          \* key presses and injected failures in one run of the UI
MaxCmds == 3            \* commands in flight at once in the sync cycle specification

\* highest statement index a failure is injected at in a Store call: the
\* COMMIT of a SaveMailboxes of MaxList mailboxes
MaxFail == MaxList + 2

SyncLimit == 100        \* the limit syncInBackground hands to SyncEmails

EmptyToken == 0         \* the Go string "" of MailboxState / EmailState

MailboxIDs == {"m1", "m2"}
EmailIDs == {"e1", "e2"}
Accounts == {"a1", "a2"}
Names == {"Inbox", "Work"}
Roles == {"", "inbox"}
Null == "<NULL>"        \* SQL NULL in a nullable TEXT column
Nil == [nil |-> TRUE]   \* a nil pointer result

\* the account the client is authenticated for
AccountID == "a1"

(***************************************************************************)
(* Generic helpers on functions and sequences.                             *)
(***************************************************************************)
Remove(f, k) == [x \in DOMAIN f \ {k} |-> f[x]]

Put(f, k, v) == [x \in DOMAIN f \cup {k} |-> IF x = k THEN v ELSE f[x]]

Range(s) == {s[i] : i \in DOMAIN s}

Min(a, b) == IF a < b THEN a ELSE b

\* F applied to the value of e, with e evaluated once
Bind(e, F(_)) == CHOOSE y \in {F(v) : v \in {e}} : TRUE

\* rank of an ID / name in the fixed collation order of the model
Rank(x) ==
    CASE x = "m1" -> 1 [] x = "m2" -> 2
      [] x = "e1" -> 1 [] x = "e2" -> 2
      [] x = "Inbox" -> 1 [] x = "Work" -> 2 [] x = "Archive" -> 3

\* the elements of S as a sequence in ascending Rank
RECURSIVE SortedSeq(_)
SortedSeq(S) ==
    IF S = {} THEN <<>>
    ELSE LET m == CHOOSE x \in S : \A y \in S : Rank(x) <= Rank(y)
         IN <<m>> \o SortedSeq(S \ {m})

(***************************************************************************)
(* models.Mailbox and models.Email values, and the rows they are stored as.*)
(***************************************************************************)
Mailbox(id, name, role, sortOrder) ==
    [ID |-> id, Name |-> name, Role |-> role, SortOrder |-> sortOrder]

Email(id, mailboxIDs, subject, isUnread, isFlagged) ==
    [ID |-> id, MailboxIDs |-> mailboxIDs, Subject |-> subject,
     IsUnread |-> isUnread, IsFlagged |-> isFlagged,
     TextBody |-> "", HTMLBody |-> ""]

\* received_at of an email: fixed per email, later IDs are newer
ReceivedAt(id) == Rank(id)

\* role / parentID: an empty Go string is written as NULL
NullIfEmpty(s) == IF s = "" THEN Null ELSE s

\* *string scanned from a nullable column: nil leaves the field ""
EmptyIfNull(c) == IF c = Null THEN "" ELSE c

\* Go bool -> INTEGER column and back (x == 1)
BoolToInt(b) == IF b THEN 1 ELSE 0

IntToBool(i) == i = 1

MailboxRow(accountID, mb, now) ==
    [account_id |-> accountID, name |-> mb.Name, role |-> NullIfEmpty(mb.Role),
     sort_order |-> mb.SortOrder, updated_at |-> now]

EmailRow(accountID, e, now) ==
    [account_id |-> accountID, subject |-> e.Subject,
     received_at |-> ReceivedAt(e.ID),
     is_unread |-> BoolToInt(e.IsUnread), is_flagged |-> BoolToInt(e.IsFlagged),
     updated_at |-> now]

BodyRow(e, now) ==
    [text_body |-> e.TextBody, html_body |-> e.HTMLBody, fetched_at |-> now]

SyncStateRow(state) ==
    [mailbox_state |-> state.MailboxState, email_state |-> state.EmailState,
     last_sync |-> state.LastSync]

SyncState(accountID, mailboxState, emailState, lastSync) ==
    [AccountID |-> accountID, MailboxState |-> mailboxState,
     EmailState |-> emailState, LastSync |-> lastSync]

\* the database right after migration001 on a fresh file
EmptyDB ==
    [mailboxes |-> <<>>, emails |-> <<>>, email_mailboxes |-> {},
     email_bodies |-> <<>>, sync_state |-> <<>>]

(***************************************************************************)
(* SQL statements.  A statement is a record; Conflicts says when the       *)
(* engine rejects it (a PRIMARY KEY violation of a plain INSERT) and       *)
(* ApplyStmt is its effect on the tables.                                  *)
(***************************************************************************)
Conflicts(w, s) ==
    \/ s.s = "INSERT_MAILBOX" /\ s.id \in DOMAIN w.mailboxes
    \/ s.s = "INSERT_MEMBER" /\ <<s.email, s.mailbox>> \in w.email_mailboxes

ApplyStmt(w, s) ==
    CASE s.s = "DELETE_MAILBOXES_OF" ->
           [w EXCEPT !.mailboxes =
               [i \in {j \in DOMAIN @ : @[j].account_id # s.account} |-> @[i]]]
      [] s.s \in {"INSERT_MAILBOX", "REPLACE_MAILBOX"} ->
           [w EXCEPT !.mailboxes = Put(@, s.id, s.row)]
      [] s.s = "DELETE_MAILBOX" ->
           [w EXCEPT !.mailboxes = Remove(@, s.id)]
      [] s.s = "REPLACE_EMAIL" ->
           [w EXCEPT !.emails = Put(@, s.id, s.row)]
      [] s.s \in {"INSERT_IGNORE_MEMBER", "INSERT_MEMBER"} ->
           [w EXCEPT !.email_mailboxes = @ \cup {<<s.email, s.mailbox>>}]
      [] s.s = "DELETE_BODY" ->
           [w EXCEPT !.email_bodies = Remove(@, s.id)]
      [] s.s = "DELETE_MEMBERS" ->
           [w EXCEPT !.email_mailboxes = {p \in @ : p[1] # s.id}]
      [] s.s = "DELETE_EMAIL" ->
           [w EXCEPT !.emails = Remove(@, s.id)]
      [] s.s = "REPLACE_BODY" ->
           [w EXCEPT !.email_bodies = Put(@, s.id, s.row)]
      [] s.s = "UPDATE_FLAGS" ->
           IF s.id \in DOMAIN w.emails
           THEN [w EXCEPT !.emails[s.id].is_unread = s.unread,
                          !.emails[s.id].is_flagged = s.flagged,
                          !.emails[s.id].updated_at = s.now]
           ELSE w
      [] s.s = "PURGE_BODIES" ->
           [w EXCEPT !.email_bodies =
               [i \in {j \in DOMAIN @ : ~(@[j].fetched_at < s.cutoff)} |-> @[i]]]
      [] s.s = "REPLACE_SYNC" ->
           [w EXCEPT !.sync_state = Put(@, s.account, s.row)]
      [] s.s = "DELETE_ALL" ->
           CASE s.table = "email_bodies" -> [w EXCEPT !.email_bodies = <<>>]
             [] s.table = "email_mailboxes" -> [w EXCEPT !.email_mailboxes = {}]
             [] s.table = "emails" -> [w EXCEPT !.emails = <<>>]
             [] s.table = "mailboxes" -> [w EXCEPT !.mailboxes = <<>>]
             [] s.table = "sync_state" -> [w EXCEPT !.sync_state = <<>>]

(***************************************************************************)
(* Execution.  fail = 0 injects no storage error; fail = k makes the k-th  *)
(* statement return an I/O error (an index past the last statement is the  *)
(* COMMIT).  ExecStmts runs statements on w until one fails and returns    *)
(* the tables as they are at that point.                                   *)
(***************************************************************************)
RECURSIVE ExecStmts(_, _, _, _)
ExecStmts(w, stmts, i, fail) ==
    IF i > Len(stmts) THEN [ok |-> TRUE, db |-> w]
    ELSE IF i = fail \/ Conflicts(w, stmts[i]) THEN [ok |-> FALSE, db |-> w]
    ELSE Bind(ApplyStmt(w, stmts[i]), LAMBDA w2 : ExecStmts(w2, stmts, i + 1, fail))

\* db.Exec of one statement outside any transaction (autocommit)
Exec(d, stmt, fail) == ExecStmts(d, <<stmt>>, 1, Min(fail, 1))

\* tx := db.Begin(); defer tx.Rollback(); statements...; return tx.Commit()
Transaction(d, stmts, fail) ==
    Bind(ExecStmts(d, stmts, 1, fail), LAMBDA r :
        IF r.ok /\ fail = 0
        THEN [ok |-> TRUE, db |-> r.db]
        ELSE [ok |-> FALSE, db |-> d])

(***************************************************************************)
(* Store: writes.  Each returns [ok, db]: ok is "err == nil" and db the    *)
(* committed tables afterwards.                                            *)
(***************************************************************************)
\* mutant: the old rows of the account are not deleted first
SaveMailboxesStmtsWithoutDelete(accountID, mailboxes, now) ==
    [i \in 1..Len(mailboxes) |->
        [s |-> "INSERT_MAILBOX", id |-> mailboxes[i].ID,
         row |-> MailboxRow(accountID, mailboxes[i], now)]]

SaveMailboxesStmts(accountID, mailboxes, now) ==
    <<[s |-> "DELETE_MAILBOXES_OF", account |-> accountID]>> \o
    [i \in 1..Len(mailboxes) |->
        [s |-> "INSERT_MAILBOX", id |-> mailboxes[i].ID,
         row |-> MailboxRow(accountID, mailboxes[i], now)]]

\* mutant: the statements run on the database handle, each committed on its own
SaveMailboxesAutocommit(d, accountID, mailboxes, now, fail) ==
    ExecStmts(d, SaveMailboxesStmts(accountID, mailboxes, now), 1, fail)

SaveMailboxes(d, accountID, mailboxes, now, fail) ==
    Transaction(d, SaveMailboxesStmts(accountID, mailboxes, now), fail)

\* mutant: a plain INSERT, rejected when the row exists
UpdateMailboxInsertOnly(d, accountID, mb, now, fail) ==
    Exec(d, [s |-> "INSERT_MAILBOX", id |-> mb.ID,
             row |-> MailboxRow(accountID, mb, now)], fail)

UpdateMailbox(d, accountID, mb, now, fail) ==
    Exec(d, [s |-> "REPLACE_MAILBOX", id |-> mb.ID,
             row |-> MailboxRow(accountID, mb, now)], fail)

DeleteMailbox(d, mailboxID, fail) ==
    Exec(d, [s |-> "DELETE_MAILBOX", id |-> mailboxID], fail)

\* mutant: the email's memberships are replaced by the list it carries
SaveEmailStmtsReplacingMembers(accountID, e, now) ==
    <<[s |-> "REPLACE_EMAIL", id |-> e.ID, row |-> EmailRow(accountID, e, now)],
      [s |-> "DELETE_MEMBERS", id |-> e.ID]>> \o
    [i \in 1..Len(e.MailboxIDs) |->
        [s |-> "INSERT_IGNORE_MEMBER", email |-> e.ID, mailbox |-> e.MailboxIDs[i]]]

\* the statements SaveEmails issues for one email
SaveEmailStmts(accountID, e, now) ==
    <<[s |-> "REPLACE_EMAIL", id |-> e.ID, row |-> EmailRow(accountID, e, now)]>> \o
    [i \in 1..Len(e.MailboxIDs) |->
        [s |-> "INSERT_IGNORE_MEMBER", email |-> e.ID, mailbox |-> e.MailboxIDs[i]]]

RECURSIVE SaveEmailsStmts(_, _, _)
SaveEmailsStmts(accountID, emails, now) ==
    IF emails = <<>> THEN <<>>
    ELSE SaveEmailStmts(accountID, Head(emails), now) \o
         SaveEmailsStmts(accountID, Tail(emails), now)

\* mutant: the flags of a row the cache already has are kept
SaveEmailsKeepingLocalFlags(d, accountID, emails, now, fail) ==
    Bind(Transaction(d, SaveEmailsStmts(accountID, emails, now), fail), LAMBDA out :
      [ok |-> out.ok,
       db |-> [out.db EXCEPT !.emails =
                 [i \in DOMAIN out.db.emails |->
                    IF i \in DOMAIN d.emails
                    THEN [out.db.emails[i] EXCEPT !.is_unread = d.emails[i].is_unread,
                                                  !.is_flagged = d.emails[i].is_flagged]
                    ELSE out.db.emails[i]]]])

SaveEmails(d, accountID, emails, now, fail) ==
    Transaction(d, SaveEmailsStmts(accountID, emails, now), fail)

SaveEmailBody(d, email, now, fail) ==
    Exec(d, [s |-> "REPLACE_BODY", id |-> email.ID, row |-> BodyRow(email, now)], fail)

\* mutant: the body row is left behind
DeleteEmailStmtsKeepingBody(emailID) ==
    <<[s |-> "DELETE_MEMBERS", id |-> emailID],
      [s |-> "DELETE_EMAIL", id |-> emailID]>>

DeleteEmailStmts(emailID) ==
    <<[s |-> "DELETE_BODY", id |-> emailID],
      [s |-> "DELETE_MEMBERS", id |-> emailID],
      [s |-> "DELETE_EMAIL", id |-> emailID]>>

\* mutant: the three DELETEs run on the database handle, each committed alone
DeleteEmailAutocommit(d, emailID, fail) == ExecStmts(d, DeleteEmailStmts(emailID), 1, fail)

DeleteEmail(d, emailID, fail) == Transaction(d, DeleteEmailStmts(emailID), fail)

UpdateEmailMailboxesStmts(emailID, mailboxIDs) ==
    <<[s |-> "DELETE_MEMBERS", id |-> emailID]>> \o
    [i \in 1..Len(mailboxIDs) |->
        [s |-> "INSERT_MEMBER", email |-> emailID, mailbox |-> mailboxIDs[i]]]

UpdateEmailMailboxes(d, emailID, mailboxIDs, fail) ==
    Transaction(d, UpdateEmailMailboxesStmts(emailID, mailboxIDs), fail)

\* mutant: the UPDATE has no WHERE clause
UpdateEmailFlagsOfEveryRow(d, emailID, isUnread, isFlagged, now, fail) ==
    IF fail # 0 THEN [ok |-> FALSE, db |-> d]
    ELSE [ok |-> TRUE,
          db |-> [d EXCEPT !.emails =
                    [i \in DOMAIN d.emails |->
                       [d.emails[i] EXCEPT !.is_unread = BoolToInt(isUnread),
                                           !.is_flagged = BoolToInt(isFlagged),
                                           !.updated_at = now]]]]

UpdateEmailFlags(d, emailID, isUnread, isFlagged, now, fail) ==
    Exec(d, [s |-> "UPDATE_FLAGS", id |-> emailID, unread |-> BoolToInt(isUnread),
             flagged |-> BoolToInt(isFlagged), now |-> now], fail)

\* mutant: every body row is removed, whatever its age
PurgeOldBodiesOfAnyAge(d, olderThan, now, fail) ==
    Exec(d, [s |-> "DELETE_ALL", table |-> "email_bodies"], fail)

PurgeOldBodies(d, olderThan, now, fail) ==
    Exec(d, [s |-> "PURGE_BODIES", cutoff |-> now - olderThan], fail)

\* mutant: the row is written although the call reports an error
SaveSyncStateWrittenOnError(d, state, fail) ==
    [ok |-> fail = 0,
     db |-> Exec(d, [s |-> "REPLACE_SYNC", account |-> state.AccountID,
                     row |-> SyncStateRow(state)], 0).db]

SaveSyncState(d, state, fail) ==
    Exec(d, [s |-> "REPLACE_SYNC", account |-> state.AccountID,
             row |-> SyncStateRow(state)], fail)

\* mutant: the sync_state table is not in the list
ClearCacheKeepingSyncState(d, fail) ==
    LET tables == <<"email_bodies", "email_mailboxes", "emails", "mailboxes">>
    IN ExecStmts(d, [i \in 1..4 |-> [s |-> "DELETE_ALL", table |-> tables[i]]], 1, fail)

\* five autocommitted DELETEs in a loop, stopping at the first error
ClearCache(d, fail) ==
    LET tables == <<"email_bodies", "email_mailboxes", "emails", "mailboxes", "sync_state">>
    IN ExecStmts(d, [i \in 1..5 |-> [s |-> "DELETE_ALL", table |-> tables[i]]], 1, fail)

(***************************************************************************)
(* Store: reads.                                                           *)
(***************************************************************************)
\* nil when the account has no row; a NULL token scans as ""
GetSyncState(d, accountID) ==
    IF accountID \notin DOMAIN d.sync_state THEN Nil
    ELSE LET r == d.sync_state[accountID]
         IN SyncState(accountID, r.mailbox_state, r.email_state, r.last_sync)

\* ids of S as a sequence ordered by key[id] ascending, ties by Rank(id)
RECURSIVE OrderBy(_, _)
OrderBy(S, key) ==
    IF S = {} THEN <<>>
    ELSE LET m == CHOOSE x \in S : \A y \in S :
                     \/ key[x] < key[y]
                     \/ key[x] = key[y] /\ Rank(x) <= Rank(y)
         IN <<m>> \o OrderBy(S \ {m}, key)

\* ORDER BY sort_order, name
GetMailboxes(d, accountID) ==
    LET ids == {i \in DOMAIN d.mailboxes : d.mailboxes[i].account_id = accountID}
        key == [i \in ids |-> d.mailboxes[i].sort_order * 10 + Rank(d.mailboxes[i].name)]
        ord == OrderBy(ids, key)
    IN [k \in 1..Len(ord) |->
          Mailbox(ord[k], d.mailboxes[ord[k]].name,
                  EmptyIfNull(d.mailboxes[ord[k]].role),
                  d.mailboxes[ord[k]].sort_order)]

\* one scanned emails row; MailboxIDs and the body are not selected
ScanEmail(d, id) ==
    Email(id, <<>>, d.emails[id].subject,
          IntToBool(d.emails[id].is_unread), IntToBool(d.emails[id].is_flagged))

\* JOIN email_mailboxes ... ORDER BY received_at DESC LIMIT ?
GetEmails(d, mailboxID, limit) ==
    LET ids == {i \in DOMAIN d.emails : <<i, mailboxID>> \in d.email_mailboxes}
        key == [i \in ids |-> 0 - d.emails[i].received_at]
        ord == OrderBy(ids, key)
    IN [k \in 1..Min(limit, Len(ord)) |-> ScanEmail(d, ord[k])]

\* mutant: an inner join, nil without a body row
GetEmailBodyInnerJoin(d, emailID) ==
    IF emailID \notin DOMAIN d.emails \/ emailID \notin DOMAIN d.email_bodies THEN Nil
    ELSE [ScanEmail(d, emailID) EXCEPT
            !.TextBody = d.email_bodies[emailID].text_body,
            !.HTMLBody = d.email_bodies[emailID].html_body]

\* LEFT JOIN email_bodies: nil without a summary row, empty body fields
\* without a body row
GetEmailBody(d, emailID) ==
    IF emailID \notin DOMAIN d.emails THEN Nil
    ELSE IF emailID \notin DOMAIN d.email_bodies THEN ScanEmail(d, emailID)
    ELSE [ScanEmail(d, emailID) EXCEPT
            !.TextBody = d.email_bodies[emailID].text_body,
            !.HTMLBody = d.email_bodies[emailID].html_body]

(***************************************************************************)
(* The remote mail server as the JMAP client shows it.  It holds the       *)
(* current mailboxes and emails and, per entity type, the log of changes;  *)
(* the state token of a type is the length of its log plus one, and the    *)
(* changes since a token are the log entries after it.  An ID changed      *)
(* several times since the token is reported in every list it falls in.    *)
(***************************************************************************)
RemoteMailboxState(r) == Len(r.mbLog) + 1

RemoteEmailState(r) == Len(r.emLog) + 1

\* IDs of the log entries of one kind from token since on, in ID order
ChangedIDs(log, since, kind) ==
    SortedSeq({log[i].id : i \in {j \in DOMAIN log : j >= since /\ log[j].kind = kind}})

Changes(log, since) ==
    [Created |-> ChangedIDs(log, since, "created"),
     Updated |-> ChangedIDs(log, since, "updated"),
     Destroyed |-> ChangedIDs(log, since, "destroyed"),
     NewState |-> Len(log) + 1]

GetMailboxChanges(r, sinceState) == Changes(r.mbLog, sinceState)

GetEmailChanges(r, sinceState) == Changes(r.emLog, sinceState)

\* Mailbox/get of every mailbox of the account
ClientGetMailboxes(r) ==
    LET ord == SortedSeq(DOMAIN r.mailboxes)
    IN [k \in 1..Len(ord) |-> r.mailboxes[ord[k]]]

MailboxesWithState(r) ==
    [mailboxes |-> ClientGetMailboxes(r), state |-> RemoteMailboxState(r)]

\* the records of the requested IDs the server still has
GetMailboxesByIDs(r, ids) ==
    LET ord == SortedSeq(Range(ids) \cap DOMAIN r.mailboxes)
    IN [k \in 1..Len(ord) |-> r.mailboxes[ord[k]]]

GetEmailsByIDs(r, ids) ==
    LET ord == SortedSeq(Range(ids) \cap DOMAIN r.emails)
    IN [k \in 1..Len(ord) |-> r.emails[ord[k]]]

\* Email/query inMailbox, receivedAt descending, limit; then Email/get
ClientGetEmails(r, mailboxID, limit) ==
    LET ids == {i \in DOMAIN r.emails : mailboxID \in Range(r.emails[i].MailboxIDs)}
        ord == OrderBy(ids, [i \in ids |-> 0 - ReceivedAt(i)])
    IN [k \in 1..Min(limit, Len(ord)) |-> r.emails[ord[k]]]

EmailsWithState(r, mailboxID, limit) ==
    [emails |-> ClientGetEmails(r, mailboxID, limit), state |-> RemoteEmailState(r)]

(***************************************************************************)
(* Syncer.  fp is the failure plan of one call: fp.delta, fp.full and      *)
(* fp.byIDs say which remote calls fail, fp.op which Store call fails      *)
(* (counted from 1 in call order, 0 for none) and fp.stmt at which of its  *)
(* statements.  Each sync returns the tables it leaves, its *SyncResult    *)
(* (Nil with an error), its error ("nil", or the name of the call whose    *)
(* error it returns), the remote calls it made with their outcome, the     *)
(* delta it got and the records it fetched.                                *)
(***************************************************************************)
StoreErrors ==
    {"GetSyncState", "SaveSyncState", "SaveMailboxes", "UpdateMailbox", "DeleteMailbox",
     "SaveEmails", "DeleteEmail", "SaveEmailBody"}

RemoteErrors ==
    {"MailboxesWithState", "GetMailboxesByIDs", "EmailsWithState", "GetEmailsByIDs",
     "GetEmail"}

\* the first failing call other than the delta call ends the sync, so a plan
\* names at most one of them
FailurePlans ==
    {fp \in [delta : BOOLEAN, full : BOOLEAN, byIDs : BOOLEAN,
             op : 0..MaxOp, stmt : 1..MaxStmt] :
        /\ ~(fp.full /\ fp.byIDs)
        /\ fp.op # 0 => ~fp.full /\ ~fp.byIDs
        /\ fp.op = 0 => fp.stmt = 1}

NoFailure == [delta |-> FALSE, full |-> FALSE, byIDs |-> FALSE, op |-> 0, stmt |-> 1]

\* the failure injected into the k-th Store call
FailAt(fp, k) == IF fp.op = k THEN fp.stmt ELSE 0

SyncResult(mc, mu, md, ec, eu, ed) ==
    [MailboxesCreated |-> mc, MailboxesUpdated |-> mu, MailboxesDestroyed |-> md,
     EmailsCreated |-> ec, EmailsUpdated |-> eu, EmailsDestroyed |-> ed]

\* the records a remote call returned
Fetched(records) == [records |-> records]

\* state.MailboxState = newState; state.LastSync = time.Now()
WithMailboxState(state, newState, now) ==
    [state EXCEPT !.MailboxState = newState, !.LastSync = now]

\* state.EmailState = newState; state.LastSync = time.Now()
WithEmailState(state, newState, now) ==
    [state EXCEPT !.EmailState = newState, !.LastSync = now]

Return(d, result, err, calls, changes, fetched) ==
    [db |-> d, result |-> result, err |-> err, calls |-> calls,
     changes |-> changes, fetched |-> fetched]

\* mutant: only a missing row counts as never synced
NeedsFullSyncOnlyWithoutRow(state, token) == state = Nil

\* state == nil || state.MailboxState == "" (resp. EmailState)
NeedsFullSync(state, token) == state = Nil \/ token = EmptyToken

\* the &SyncState{...} fullMailboxSync builds
NewMailboxSyncState(accountID, newState, now) ==
    SyncState(accountID, newState, EmptyToken, now)

fullMailboxSync(d, r, now, fp, n, calls) ==
    LET calls1 == Append(calls, [call |-> "MailboxesWithState", ok |-> ~fp.full,
                                 state |-> IF fp.full THEN EmptyToken
                                           ELSE RemoteMailboxState(r)])
    IN IF fp.full THEN Return(d, Nil, "MailboxesWithState", calls1, Nil, Nil)
       ELSE
       Bind(MailboxesWithState(r), LAMBDA f :
       Bind(SaveMailboxes(d, AccountID, f.mailboxes, now, FailAt(fp, n + 1)), LAMBDA s1 :
         IF ~s1.ok THEN Return(s1.db, Nil, "SaveMailboxes", calls1, Nil, Fetched(f.mailboxes))
         ELSE
         Bind(SaveSyncState(s1.db, NewMailboxSyncState(AccountID, f.state, now),
                            FailAt(fp, n + 2)), LAMBDA s2 :
           IF ~s2.ok THEN Return(s2.db, Nil, "SaveSyncState", calls1, Nil, Fetched(f.mailboxes))
           ELSE Return(s2.db, SyncResult(Len(f.mailboxes), 0, 0, 0, 0, 0), "nil",
                       calls1, Nil, Fetched(f.mailboxes)))))

\* for _, id := range changes.Destroyed { DeleteMailbox(id) }, Store calls n+1...
RECURSIVE DeleteMailboxesLoop(_, _, _, _, _)
DeleteMailboxesLoop(d, ids, i, fp, n) ==
    IF i > Len(ids) THEN [ok |-> TRUE, db |-> d]
    ELSE Bind(DeleteMailbox(d, ids[i], FailAt(fp, n + i)), LAMBDA s :
           IF ~s.ok THEN s ELSE DeleteMailboxesLoop(s.db, ids, i + 1, fp, n))

\* for _, mb := range mailboxes { UpdateMailbox(accountID, mb) }
RECURSIVE UpdateMailboxesLoop(_, _, _, _, _, _)
UpdateMailboxesLoop(d, mbs, i, now, fp, n) ==
    IF i > Len(mbs) THEN [ok |-> TRUE, db |-> d]
    ELSE Bind(UpdateMailbox(d, AccountID, mbs[i], now, FailAt(fp, n + i)), LAMBDA s :
           IF ~s.ok THEN s ELSE UpdateMailboxesLoop(s.db, mbs, i + 1, now, fp, n))

\* the outcome of the apply stage: its error, the tables, the remote calls made,
\* the records fetched and the number of Store calls made so far
Applied(err, d, calls, fetched, n) ==
    [err |-> err, db |-> d, calls |-> calls, fetched |-> fetched, n |-> n]

\* destructions, then the fetch and upsert of created and updated
ApplyMailboxChanges(d, r, changes, now, fp) ==
    LET n1 == 1 + Len(changes.Destroyed)
        idsToFetch == changes.Created \o changes.Updated
        calls == <<[call |-> "GetMailboxesByIDs", ids |-> idsToFetch, ok |-> ~fp.byIDs]>>
    IN Bind(DeleteMailboxesLoop(d, changes.Destroyed, 1, fp, 1), LAMBDA del :
         IF ~del.ok THEN Applied("DeleteMailbox", del.db, <<>>, Nil, n1)
         ELSE IF Len(idsToFetch) = 0 THEN Applied("nil", del.db, <<>>, Nil, n1)
         ELSE IF fp.byIDs THEN Applied("GetMailboxesByIDs", del.db, calls, Nil, n1)
         ELSE
         Bind(GetMailboxesByIDs(r, idsToFetch), LAMBDA mailboxes :
         Bind(UpdateMailboxesLoop(del.db, mailboxes, 1, now, fp, n1), LAMBDA upd :
           Applied(IF upd.ok THEN "nil" ELSE "UpdateMailbox", upd.db, calls,
                   Fetched(mailboxes),
                   n1 + Len(mailboxes)))))

\* mutant: only the records the fetch returned are counted as created
ChangeCountsOfFetchedOnly(changes) ==
    [created |-> Len(changes.Created \o changes.Updated),
     updated |-> 0,
     destroyed |-> Len(changes.Destroyed)]

\* result.MailboxesCreated / Updated are set only inside the fetch branch
ChangeCounts(changes) ==
    LET fetches == Len(changes.Created \o changes.Updated) > 0
    IN [created |-> IF fetches THEN Len(changes.Created) ELSE 0,
        updated |-> IF fetches THEN Len(changes.Updated) ELSE 0,
        destroyed |-> Len(changes.Destroyed)]

\* the incremental path of SyncMailboxes, after the delta call succeeded
incrementalMailboxSync(d, r, state, now, fp) ==
    LET call == [call |-> "GetMailboxChanges", since |-> state.MailboxState, ok |-> TRUE]
    IN Bind(GetMailboxChanges(r, state.MailboxState), LAMBDA changes :
       Bind(ApplyMailboxChanges(d, r, changes, now, fp), LAMBDA app :
         IF app.err # "nil"
         THEN Return(app.db, Nil, app.err, <<call>> \o app.calls, changes, app.fetched)
         ELSE
         Bind(SaveSyncState(app.db,
                            WithMailboxState(state, changes.NewState, now),
                            FailAt(fp, app.n + 1)), LAMBDA sav :
           IF ~sav.ok
           THEN Return(sav.db, Nil, "SaveSyncState", <<call>> \o app.calls, changes,
                       app.fetched)
           ELSE Return(sav.db,
                       SyncResult(ChangeCounts(changes).created,
                                  ChangeCounts(changes).updated,
                                  ChangeCounts(changes).destroyed, 0, 0, 0),
                       "nil", <<call>> \o app.calls, changes, app.fetched))))

\* mutant: the error of the delta call is returned
SyncMailboxesSurfacingDeltaError(d, r, now, fp) ==
    IF FailAt(fp, 1) # 0 THEN Return(d, Nil, "GetSyncState", <<>>, Nil, Nil)
    ELSE
    Bind(GetSyncState(d, AccountID), LAMBDA state :
      IF NeedsFullSync(state, IF state = Nil THEN EmptyToken ELSE state.MailboxState)
      THEN fullMailboxSync(d, r, now, fp, 1, <<>>)
      ELSE IF fp.delta
           THEN Return(d, Nil, "GetMailboxChanges",
                    <<[call |-> "GetMailboxChanges", since |-> state.MailboxState,
                       ok |-> FALSE]>>, Nil, Nil)
      ELSE incrementalMailboxSync(d, r, state, now, fp))

SyncMailboxes(d, r, now, fp) ==
    IF FailAt(fp, 1) # 0 THEN Return(d, Nil, "GetSyncState", <<>>, Nil, Nil)
    ELSE
    Bind(GetSyncState(d, AccountID), LAMBDA state :
      IF NeedsFullSync(state, IF state = Nil THEN EmptyToken ELSE state.MailboxState)
      THEN fullMailboxSync(d, r, now, fp, 1, <<>>)
      ELSE IF fp.delta
           THEN fullMailboxSync(d, r, now, fp, 1,
                    <<[call |-> "GetMailboxChanges", since |-> state.MailboxState,
                       ok |-> FALSE]>>)
      ELSE incrementalMailboxSync(d, r, state, now, fp))

\* state, err := GetSyncState(accountID); if state == nil { state = &SyncState{...} }
GetOrCreateSyncState(d, accountID) ==
    Bind(GetSyncState(d, accountID), LAMBDA got :
      IF got = Nil THEN SyncState(accountID, EmptyToken, EmptyToken, 0) ELSE got)

fullEmailSync(d, r, mailboxID, limit, now, fp, n, calls) ==
    LET calls1 == Append(calls, [call |-> "EmailsWithState", mailbox |-> mailboxID,
                                 ok |-> ~fp.full,
                                 state |-> IF fp.full THEN EmptyToken
                                           ELSE RemoteEmailState(r)])
    IN IF fp.full THEN Return(d, Nil, "EmailsWithState", calls1, Nil, Nil)
       ELSE
       Bind(EmailsWithState(r, mailboxID, limit), LAMBDA f :
       Bind(SaveEmails(d, AccountID, f.emails, now, FailAt(fp, n + 1)), LAMBDA s1 :
         IF ~s1.ok THEN Return(s1.db, Nil, "SaveEmails", calls1, Nil, Fetched(f.emails))
         ELSE IF FailAt(fp, n + 2) # 0
              THEN Return(s1.db, Nil, "GetSyncState", calls1, Nil, Fetched(f.emails))
         ELSE
         Bind(GetOrCreateSyncState(s1.db, AccountID), LAMBDA state :
         Bind(SaveSyncState(s1.db,
                            WithEmailState(state, f.state, now),
                            FailAt(fp, n + 3)), LAMBDA s2 :
           IF ~s2.ok THEN Return(s2.db, Nil, "SaveSyncState", calls1, Nil, Fetched(f.emails))
           ELSE Return(s2.db, SyncResult(0, 0, 0, Len(f.emails), 0, 0), "nil",
                       calls1, Nil, Fetched(f.emails))))))

\* for _, id := range changes.Destroyed { DeleteEmail(id) }
RECURSIVE DeleteEmailsLoop(_, _, _, _, _)
DeleteEmailsLoop(d, ids, i, fp, n) ==
    IF i > Len(ids) THEN [ok |-> TRUE, db |-> d]
    ELSE Bind(DeleteEmail(d, ids[i], FailAt(fp, n + i)), LAMBDA s :
           IF ~s.ok THEN s ELSE DeleteEmailsLoop(s.db, ids, i + 1, fp, n))

\* mutant: created and updated are upserted before the destructions are applied
ApplyEmailChangesUpsertFirst(d, r, changes, now, fp) ==
    LET idsToFetch == changes.Created \o changes.Updated
        n1 == IF Len(idsToFetch) = 0 THEN 1 ELSE 2
        calls == IF Len(idsToFetch) = 0 THEN <<>>
                 ELSE <<[call |-> "GetEmailsByIDs", ids |-> idsToFetch, ok |-> ~fp.byIDs]>>
    IN IF Len(idsToFetch) > 0 /\ fp.byIDs
       THEN Applied("GetEmailsByIDs", d, calls, Nil, 1)
       ELSE
       Bind(GetEmailsByIDs(r, idsToFetch), LAMBDA emails :
       Bind(IF Len(idsToFetch) = 0 THEN [ok |-> TRUE, db |-> d]
            ELSE SaveEmails(d, AccountID, emails, now, FailAt(fp, 2)), LAMBDA upd :
         IF ~upd.ok THEN Applied("SaveEmails", upd.db, calls, Fetched(emails), n1)
         ELSE
         Bind(DeleteEmailsLoop(upd.db, changes.Destroyed, 1, fp, n1), LAMBDA del :
           Applied(IF del.ok THEN "nil" ELSE "DeleteEmail", del.db, calls,
                   IF Len(idsToFetch) = 0 THEN Nil ELSE Fetched(emails),
                   n1 + Len(changes.Destroyed)))))

\* destructions, then the fetch and upsert of created and updated
ApplyEmailChanges(d, r, changes, now, fp) ==
    LET n1 == 1 + Len(changes.Destroyed)
        idsToFetch == changes.Created \o changes.Updated
        calls == <<[call |-> "GetEmailsByIDs", ids |-> idsToFetch, ok |-> ~fp.byIDs]>>
    IN Bind(DeleteEmailsLoop(d, changes.Destroyed, 1, fp, 1), LAMBDA del :
         IF ~del.ok THEN Applied("DeleteEmail", del.db, <<>>, Nil, n1)
         ELSE IF Len(idsToFetch) = 0 THEN Applied("nil", del.db, <<>>, Nil, n1)
         ELSE IF fp.byIDs THEN Applied("GetEmailsByIDs", del.db, calls, Nil, n1)
         ELSE
         Bind(GetEmailsByIDs(r, idsToFetch), LAMBDA emails :
         Bind(SaveEmails(del.db, AccountID, emails, now, FailAt(fp, n1 + 1)), LAMBDA upd :
           Applied(IF upd.ok THEN "nil" ELSE "SaveEmails", upd.db, calls, Fetched(emails),
                   n1 + 1))))

\* the incremental path of SyncEmails, after the delta call succeeded
incrementalEmailSync(d, r, state, now, fp) ==
    LET call == [call |-> "GetEmailChanges", since |-> state.EmailState, ok |-> TRUE]
    IN Bind(GetEmailChanges(r, state.EmailState), LAMBDA changes :
       Bind(ApplyEmailChanges(d, r, changes, now, fp), LAMBDA app :
         IF app.err # "nil"
         THEN Return(app.db, Nil, app.err, <<call>> \o app.calls, changes, app.fetched)
         ELSE
         Bind(SaveSyncState(app.db,
                            WithEmailState(state, changes.NewState, now),
                            FailAt(fp, app.n + 1)), LAMBDA sav :
           IF ~sav.ok
           THEN Return(sav.db, Nil, "SaveSyncState", <<call>> \o app.calls, changes,
                       app.fetched)
           ELSE Return(sav.db,
                       SyncResult(0, 0, 0, ChangeCounts(changes).created,
                                  ChangeCounts(changes).updated,
                                  ChangeCounts(changes).destroyed),
                       "nil", <<call>> \o app.calls, changes, app.fetched))))

\* mutant: the error of the delta call is returned
SyncEmailsSurfacingDeltaError(d, r, mailboxID, limit, now, fp) ==
    IF FailAt(fp, 1) # 0 THEN Return(d, Nil, "GetSyncState", <<>>, Nil, Nil)
    ELSE
    Bind(GetSyncState(d, AccountID), LAMBDA state :
      IF NeedsFullSync(state, IF state = Nil THEN EmptyToken ELSE state.EmailState)
      THEN fullEmailSync(d, r, mailboxID, limit, now, fp, 1, <<>>)
      ELSE IF fp.delta
           THEN Return(d, Nil, "GetEmailChanges",
                    <<[call |-> "GetEmailChanges", since |-> state.EmailState,
                       ok |-> FALSE]>>, Nil, Nil)
      ELSE incrementalEmailSync(d, r, state, now, fp))

SyncEmails(d, r, mailboxID, limit, now, fp) ==
    IF FailAt(fp, 1) # 0 THEN Return(d, Nil, "GetSyncState", <<>>, Nil, Nil)
    ELSE
    Bind(GetSyncState(d, AccountID), LAMBDA state :
      IF NeedsFullSync(state, IF state = Nil THEN EmptyToken ELSE state.EmailState)
      THEN fullEmailSync(d, r, mailboxID, limit, now, fp, 1, <<>>)
      ELSE IF fp.delta
           THEN fullEmailSync(d, r, mailboxID, limit, now, fp, 1,
                    <<[call |-> "GetEmailChanges", since |-> state.EmailState,
                       ok |-> FALSE]>>)
      ELSE incrementalEmailSync(d, r, state, now, fp))

\* client.GetEmail with the full body
ClientGetEmail(r, emailID) == [r.emails[emailID] EXCEPT !.TextBody = "text"]

\* client.GetEmail, then SaveEmailBody
FetchAndCacheEmailBody(d, r, emailID, now, fp) ==
    IF fp.byIDs \/ emailID \notin DOMAIN r.emails
    THEN Return(d, Nil, "GetEmail", <<>>, Nil, Nil)
    ELSE
    Bind(ClientGetEmail(r, emailID), LAMBDA email :
    Bind(SaveEmailBody(d, email, now, FailAt(fp, 1)), LAMBDA s :
      IF ~s.ok THEN Return(s.db, Nil, "SaveEmailBody", <<>>, Nil, Nil)
      ELSE Return(s.db, Nil, "nil", <<>>, Nil, Fetched(<<email>>))))

(***************************************************************************)
(* State.                                                                  *)
(***************************************************************************)
VARIABLES
    db,      \* the SQLite database: the committed rows of every table
    remote,  \* the mail server: [mailboxes, emails, mbLog, emLog]
    now,     \* time.Now().Unix()
    last,    \* the last call: its arguments, the tables before it, its outcome
    tx,      \* the open write transaction, NoTx when there is none
    app      \* the UI program: its model, its commands in flight; NoApp without UI

vars == <<db, remote, now, last, tx, app>>

\* the Store and the Syncer are driven directly, without the UI
NoApp == [ui |-> "none"]

NoTx == [op |-> "none"]

\* the writer has returned from its call
TxDone == [op |-> "done"]

NoCall == [op |-> "none", n |-> 0]

\* the server's account when the client first connects
InitRemote ==
    [mailboxes |-> ("m1" :> Mailbox("m1", "Inbox", "inbox", 0)),
     emails |-> ("e1" :> Email("e1", <<"m1">>, "s1", TRUE, FALSE)),
     mbLog |-> <<>>, emLog |-> <<>>]

\* the cache after the first complete sync cycle and one opened email
WarmDB ==
    Bind(SyncMailboxes(EmptyDB, InitRemote, 1, NoFailure).db, LAMBDA a :
    Bind(SyncEmails(a, InitRemote, "m1", SyncLimit, 1, NoFailure).db, LAMBDA b :
      FetchAndCacheEmailBody(b, InitRemote, "e1", 1, NoFailure).db))

Init ==
    /\ db \in {EmptyDB, WarmDB}
    /\ remote = InitRemote
    /\ now = 1
    /\ last = NoCall
    /\ tx = NoTx
    /\ app = NoApp

(***************************************************************************)
(* The server changes under the client: other devices and mail delivery.   *)
(***************************************************************************)
\* the steps taken so far
Steps == Len(remote.mbLog) + Len(remote.emLog) + last.n + (now - 1)

LogMailbox(r, id, kind) == [r EXCEPT !.mbLog = Append(@, [id |-> id, kind |-> kind])]

LogEmail(r, id, kind) == [r EXCEPT !.emLog = Append(@, [id |-> id, kind |-> kind])]

RemoteCreateMailbox ==
    /\ Steps < MaxSteps
    /\ \E id \in MailboxIDs \ DOMAIN remote.mailboxes :
         remote' = LogMailbox([remote EXCEPT !.mailboxes =
                                  Put(@, id, Mailbox(id, "Work", "", 1))], id, "created")
    /\ UNCHANGED <<db, now, last, tx, app>>

RemoteRenameMailbox ==
    /\ Steps < MaxSteps
    /\ \E id \in DOMAIN remote.mailboxes, name \in Names :
         /\ name # remote.mailboxes[id].Name
         /\ remote' = LogMailbox([remote EXCEPT !.mailboxes[id].Name = name], id, "updated")
    /\ UNCHANGED <<db, now, last, tx, app>>

\* a mailbox is destroyed once no email is left in it
RemoteDestroyMailbox ==
    /\ Steps < MaxSteps
    /\ \E id \in DOMAIN remote.mailboxes :
         /\ \A e \in DOMAIN remote.emails : id \notin Range(remote.emails[e].MailboxIDs)
         /\ remote' = LogMailbox([remote EXCEPT !.mailboxes = Remove(@, id)], id, "destroyed")
    /\ UNCHANGED <<db, now, last, tx, app>>

RemoteCreateEmail ==
    /\ Steps < MaxSteps
    /\ \E id \in EmailIDs \ DOMAIN remote.emails, m \in DOMAIN remote.mailboxes :
         remote' = LogEmail([remote EXCEPT !.emails =
                                Put(@, id, Email(id, <<m>>, "s1", TRUE, FALSE))],
                            id, "created")
    /\ UNCHANGED <<db, now, last, tx, app>>

RemoteMoveEmail ==
    /\ Steps < MaxSteps
    /\ \E id \in DOMAIN remote.emails, m \in DOMAIN remote.mailboxes :
         /\ remote.emails[id].MailboxIDs # <<m>>
         /\ remote' = LogEmail([remote EXCEPT !.emails[id].MailboxIDs = <<m>>],
                               id, "updated")
    /\ UNCHANGED <<db, now, last, tx, app>>

RemoteSetKeywords ==
    /\ Steps < MaxSteps
    /\ \E id \in DOMAIN remote.emails :
         remote' = LogEmail([remote EXCEPT !.emails[id].IsUnread = ~@], id, "updated")
    /\ UNCHANGED <<db, now, last, tx, app>>

RemoteDestroyEmail ==
    /\ Steps < MaxSteps
    /\ \E id \in DOMAIN remote.emails :
         remote' = LogEmail([remote EXCEPT !.emails = Remove(@, id)], id, "destroyed")
    /\ UNCHANGED <<db, now, last, tx, app>>

Tick ==
    /\ Steps < MaxSteps
    /\ now' = now + 1
    /\ UNCHANGED <<db, remote, last, tx, app>>

(***************************************************************************)
(* Syncer calls.                                                           *)
(***************************************************************************)
\* chain: the cache was complete at the start and every call since was a
\* successful incremental sync
Record(op, mailboxID, out) ==
    [op |-> op, n |-> last.n + 1, mailbox |-> mailboxID, pre |-> db, at |-> now,
     result |-> out.result, err |-> out.err, calls |-> out.calls,
     changes |-> out.changes, fetched |-> out.fetched,
     chain |-> /\ IF last.op = "none" THEN db = WarmDB ELSE last.chain
               /\ out.changes # Nil
               /\ out.err = "nil"]

CallSyncMailboxes ==
    /\ Steps < MaxSteps
    /\ \E fp \in FailurePlans :
         \E out \in {SyncMailboxes(db, remote, now, fp)} :
            /\ db' = out.db
            /\ last' = Record("SyncMailboxes", "", out)
    /\ UNCHANGED <<remote, now, tx, app>>

CallSyncEmails ==
    /\ Steps < MaxSteps
    /\ \E fp \in FailurePlans, mailboxID \in MailboxIDs :
         \E out \in {SyncEmails(db, remote, mailboxID, SyncLimit, now, fp)} :
            /\ db' = out.db
            /\ last' = Record("SyncEmails", mailboxID, out)
    /\ UNCHANGED <<remote, now, tx, app>>

CallFetchAndCacheEmailBody ==
    /\ Steps < MaxSteps
    /\ \E fp \in FailurePlans, emailID \in EmailIDs :
         \E out \in {FetchAndCacheEmailBody(db, remote, emailID, now, fp)} :
            /\ db' = out.db
            /\ last' = Record("FetchAndCacheEmailBody", "", out)
    /\ UNCHANGED <<remote, now, tx, app>>

Next ==
    \/ RemoteCreateMailbox
    \/ RemoteRenameMailbox
    \/ RemoteDestroyMailbox
    \/ RemoteCreateEmail
    \/ RemoteMoveEmail
    \/ RemoteSetKeywords
    \/ RemoteDestroyEmail
    \/ Tick
    \/ CallSyncMailboxes
    \/ CallSyncEmails
    \/ CallFetchAndCacheEmailBody

Spec == Init /\ [][Next]_vars

(***************************************************************************)
(* The Store on its own: any caller, any argument list, storage failures   *)
(* at any statement.  The tables may hold rows of an account used before.  *)
(***************************************************************************)
MailboxValues ==
    {Mailbox("m1", "Inbox", "inbox", 0), Mailbox("m1", "Work", "", 0),
     Mailbox("m2", "Work", "", 1)}

EmailValues ==
    {Email("e1", <<"m1">>, "s1", TRUE, FALSE), Email("e1", <<"m2">>, "s1", FALSE, FALSE),
     Email("e2", <<"m1", "m2">>, "s1", TRUE, FALSE)}

\* the argument lists of at most MaxList elements of S
Lists(S) == UNION {[1..n -> S] : n \in 0..MaxList}

\* the tables of a cache that an earlier account has also used
OtherAccountDB == SaveMailboxes(WarmDB, "a2", <<Mailbox("m2", "Work", "", 1)>>, 1, 0).db

\* the cache of an earlier run: synced and e1 opened at time 0, then e2 saved
\* and opened and e1 set read and flagged locally at time 1
AgedDB ==
    Bind(SyncMailboxes(EmptyDB, InitRemote, 0, NoFailure).db, LAMBDA a :
    Bind(SyncEmails(a, InitRemote, "m1", SyncLimit, 0, NoFailure).db, LAMBDA b :
    Bind(FetchAndCacheEmailBody(b, InitRemote, "e1", 0, NoFailure).db, LAMBDA c :
    Bind(Email("e2", <<"m1">>, "s1", TRUE, FALSE), LAMBDA e2 :
    Bind(SaveEmails(c, AccountID, <<e2>>, 1, 0).db, LAMBDA e :
    Bind(SaveEmailBody(e, [e2 EXCEPT !.HTMLBody = "html"], 1, 0).db, LAMBDA f :
      UpdateEmailFlags(f, "e1", FALSE, TRUE, 1, 0).db))))))

InitStore ==
    /\ db \in {EmptyDB, WarmDB, OtherAccountDB, AgedDB}
    /\ remote = InitRemote
    /\ now = 1
    /\ last = NoCall
    /\ tx = NoTx
    /\ app = NoApp

\* the Store calls and clock ticks so far
StoreSteps == last.n + (now - 1)

StoreRecord(op, args, fail, out) ==
    [op |-> op, n |-> last.n + 1, args |-> args, fail |-> fail, pre |-> db, at |-> now,
     ok |-> out.ok]

StoreSaveMailboxes ==
    /\ StoreSteps < MaxStoreOps
    /\ \E accountID \in Accounts, mailboxes \in Lists(MailboxValues), fail \in 0..MaxFail :
         \E out \in {SaveMailboxes(db, accountID, mailboxes, now, fail)} :
            /\ db' = out.db
            /\ last' = StoreRecord("SaveMailboxes",
                                    [accountID |-> accountID, mailboxes |-> mailboxes],
                                    fail, out)
    /\ UNCHANGED <<remote, now, tx, app>>

StoreSaveEmails ==
    /\ StoreSteps < MaxStoreOps
    /\ \E emails \in Lists(EmailValues), fail \in 0..MaxFail :
         \E out \in {SaveEmails(db, AccountID, emails, now, fail)} :
            /\ db' = out.db
            /\ last' = StoreRecord("SaveEmails", [emails |-> emails], fail, out)
    /\ UNCHANGED <<remote, now, tx, app>>

StoreDeleteEmail ==
    /\ StoreSteps < MaxStoreOps
    /\ \E emailID \in EmailIDs, fail \in 0..MaxFail :
         \E out \in {DeleteEmail(db, emailID, fail)} :
            /\ db' = out.db
            /\ last' = StoreRecord("DeleteEmail", [emailID |-> emailID], fail, out)
    /\ UNCHANGED <<remote, now, tx, app>>

StoreUpdateEmailMailboxes ==
    /\ StoreSteps < MaxStoreOps
    /\ \E emailID \in EmailIDs, mailboxIDs \in Lists(MailboxIDs), fail \in 0..MaxFail :
         \E out \in {UpdateEmailMailboxes(db, emailID, mailboxIDs, fail)} :
            /\ db' = out.db
            /\ last' = StoreRecord("UpdateEmailMailboxes",
                                    [emailID |-> emailID, mailboxIDs |-> mailboxIDs],
                                    fail, out)
    /\ UNCHANGED <<remote, now, tx, app>>

StoreUpdateMailbox ==
    /\ StoreSteps < MaxStoreOps
    /\ \E accountID \in Accounts, mb \in MailboxValues, fail \in 0..1 :
         \E out \in {UpdateMailbox(db, accountID, mb, now, fail)} :
            /\ db' = out.db
            /\ last' = StoreRecord("UpdateMailbox", [mailbox |-> mb], fail, out)
    /\ UNCHANGED <<remote, now, tx, app>>

StoreDeleteMailbox ==
    /\ StoreSteps < MaxStoreOps
    /\ \E mailboxID \in MailboxIDs, fail \in 0..1 :
         \E out \in {DeleteMailbox(db, mailboxID, fail)} :
            /\ db' = out.db
            /\ last' = StoreRecord("DeleteMailbox", [mailboxID |-> mailboxID], fail, out)
    /\ UNCHANGED <<remote, now, tx, app>>

StoreSaveEmailBody ==
    /\ StoreSteps < MaxStoreOps
    /\ \E email \in EmailValues, fail \in 0..1 :
         \E out \in {SaveEmailBody(db, email, now, fail)} :
            /\ db' = out.db
            /\ last' = StoreRecord("SaveEmailBody", [emailID |-> email.ID], fail, out)
    /\ UNCHANGED <<remote, now, tx, app>>

StoreUpdateEmailFlags ==
    /\ StoreSteps < MaxStoreOps
    /\ \E emailID \in EmailIDs, isUnread \in BOOLEAN, isFlagged \in BOOLEAN, fail \in 0..1 :
         \E out \in {UpdateEmailFlags(db, emailID, isUnread, isFlagged, now, fail)} :
            /\ db' = out.db
            /\ last' = StoreRecord("UpdateEmailFlags",
                                    [emailID |-> emailID, isUnread |-> isUnread,
                                     isFlagged |-> isFlagged], fail, out)
    /\ UNCHANGED <<remote, now, tx, app>>

StorePurgeOldBodies ==
    /\ StoreSteps < MaxStoreOps
    /\ \E olderThan \in 0..1, fail \in 0..1 :
         \E out \in {PurgeOldBodies(db, olderThan, now, fail)} :
            /\ db' = out.db
            /\ last' = StoreRecord("PurgeOldBodies", [olderThan |-> olderThan], fail, out)
    /\ UNCHANGED <<remote, now, tx, app>>

StoreSaveSyncState ==
    /\ StoreSteps < MaxStoreOps
    /\ \E accountID \in Accounts, token \in {EmptyToken, 1}, fail \in 0..1 :
         \E out \in {SaveSyncState(db, SyncState(accountID, token, EmptyToken, now), fail)} :
            /\ db' = out.db
            /\ last' = StoreRecord("SaveSyncState", [accountID |-> accountID], fail, out)
    /\ UNCHANGED <<remote, now, tx, app>>

\* the failure may come at any of the five DELETEs
StoreClearCache ==
    /\ StoreSteps < MaxStoreOps
    /\ \E fail \in 0..5 :
         \E out \in {ClearCache(db, fail)} :
            /\ db' = out.db
            /\ last' = StoreRecord("ClearCache", [tables |-> 5], fail, out)
    /\ UNCHANGED <<remote, now, tx, app>>

StoreTick ==
    /\ StoreSteps < MaxStoreOps
    /\ now' = now + 1
    /\ UNCHANGED <<db, remote, last, tx, app>>

NextStore ==
    \/ StoreSaveMailboxes
    \/ StoreSaveEmails
    \/ StoreDeleteEmail
    \/ StoreUpdateEmailMailboxes
    \/ StoreUpdateMailbox
    \/ StoreDeleteMailbox
    \/ StoreSaveEmailBody
    \/ StoreUpdateEmailFlags
    \/ StorePurgeOldBodies
    \/ StoreSaveSyncState
    \/ StoreClearCache
    \/ StoreTick

SpecStore == InitStore /\ [][NextStore]_vars

(***************************************************************************)
(* The Store under concurrency: one goroutine makes one bulk write call,   *)
(* statement by statement inside its transaction, while another goroutine  *)
(* reads.  In WAL mode a SELECT sees the last committed tables; every read *)
(* of the Store is one SELECT.  tx.work is what the writer's connection    *)
(* sees, tx.pre the tables at BEGIN, tx.pc the next statement (past the    *)
(* last: COMMIT).                                                          *)
(***************************************************************************)
\* the bulk writes of the Store with the statements they issue
WriteCalls ==
    {[op |-> "SaveMailboxes", stmts |-> SaveMailboxesStmts(AccountID, l, now)] :
        l \in Lists(MailboxValues)} \cup
    {[op |-> "SaveEmails", stmts |-> SaveEmailsStmts(AccountID, l, now)] :
        l \in Lists(EmailValues)} \cup
    {[op |-> "UpdateEmailMailboxes", stmts |-> UpdateEmailMailboxesStmts(e, l)] :
        e \in EmailIDs, l \in Lists(MailboxIDs)} \cup
    {[op |-> "DeleteEmail", stmts |-> DeleteEmailStmts(e)] : e \in EmailIDs}

\* mutant: the statement is run on the database handle, outside the transaction
TxExecOnDB(d, w, stmt) == [db |-> ApplyStmt(w, stmt), work |-> ApplyStmt(w, stmt)]

\* tx.Exec / stmt.Exec of one statement: only the transaction sees its effect
TxExec(d, w, stmt) == [db |-> d, work |-> ApplyStmt(w, stmt)]

\* a transaction is open
InTx(t) == t.op \notin {"none", "done"}

\* tx, err := s.db.Begin()
TxBegin ==
    /\ tx = NoTx
    /\ \E w \in WriteCalls, fail \in 0..MaxFail :
         tx' = [op |-> w.op, stmts |-> w.stmts, pc |-> 1,
                work |-> db, pre |-> db, fail |-> fail]
    /\ UNCHANGED <<db, remote, now, last, app>>

\* the next statement runs without error
TxStep ==
    /\ InTx(tx) /\ tx.pc <= Len(tx.stmts)
    /\ tx.pc # tx.fail /\ ~Conflicts(tx.work, tx.stmts[tx.pc])
    /\ \E out \in {TxExec(db, tx.work, tx.stmts[tx.pc])} :
          /\ db' = out.db
          /\ tx' = [tx EXCEPT !.work = out.work, !.pc = @ + 1]
    /\ UNCHANGED <<remote, now, last, app>>

\* a statement or the COMMIT returns an error: the deferred tx.Rollback() runs
TxRollback ==
    /\ InTx(tx)
    /\ \/ tx.pc = tx.fail /\ tx.pc <= Len(tx.stmts) + 1
       \/ tx.pc <= Len(tx.stmts) /\ Conflicts(tx.work, tx.stmts[tx.pc])
    /\ tx' = TxDone
    /\ UNCHANGED <<db, remote, now, last, app>>

\* return tx.Commit()
TxCommit ==
    /\ InTx(tx) /\ tx.pc = Len(tx.stmts) + 1 /\ tx.pc # tx.fail
    /\ db' = tx.work
    /\ tx' = TxDone
    /\ UNCHANGED <<remote, now, last, app>>

ReadRecord(op, arg, result) ==
    [op |-> op, n |-> last.n + 1, arg |-> arg, result |-> result, during |-> tx]

ReadMailboxes ==
    /\ last.n < MaxReads
    /\ last' = ReadRecord("GetMailboxes", "", GetMailboxes(db, AccountID))
    /\ UNCHANGED <<db, remote, now, tx, app>>

ReadEmails ==
    /\ last.n < MaxReads
    /\ \E mailboxID \in MailboxIDs :
         last' = ReadRecord("GetEmails", mailboxID, GetEmails(db, mailboxID, SyncLimit))
    /\ UNCHANGED <<db, remote, now, tx, app>>

ReadEmailBody ==
    /\ last.n < MaxReads
    /\ \E emailID \in EmailIDs :
         last' = ReadRecord("GetEmailBody", emailID, GetEmailBody(db, emailID))
    /\ UNCHANGED <<db, remote, now, tx, app>>

NextTx ==
    \/ TxBegin
    \/ TxStep
    \/ TxRollback
    \/ TxCommit
    \/ ReadMailboxes
    \/ ReadEmails
    \/ ReadEmailBody

SpecTx == InitStore /\ [][NextTx]_vars

(***************************************************************************)
(* What the last Syncer call started from and what it left.                *)
(***************************************************************************)
Syncs == {"SyncMailboxes", "SyncEmails"}

DeltaCall(op) == IF op = "SyncMailboxes" THEN "GetMailboxChanges" ELSE "GetEmailChanges"

FullCall(op) == IF op = "SyncMailboxes" THEN "MailboxesWithState" ELSE "EmailsWithState"

TokenOf(state, op) ==
    IF state = Nil THEN EmptyToken
    ELSE IF op = "SyncMailboxes" THEN state.MailboxState ELSE state.EmailState

\* the SyncState row the call found, and its token for the call's entity type
PreState == GetSyncState(last.pre, AccountID)

PreToken == TokenOf(PreState, last.op)

PostToken == TokenOf(GetSyncState(db, AccountID), last.op)

\* the call got past its read of the sync state
ReadSyncState == last.op \in Syncs /\ last.err # "GetSyncState"

\* the call took the incremental path: its delta call succeeded
Incremental == last.op \in Syncs /\ last.changes # Nil

\* the fetched record is stored with its fetched fields
StoredAsFetched(op, rec, at) ==
    IF op = "SyncMailboxes"
    THEN /\ rec.ID \in DOMAIN db.mailboxes
         /\ db.mailboxes[rec.ID] = MailboxRow(AccountID, rec, at)
    ELSE /\ rec.ID \in DOMAIN db.emails
         /\ db.emails[rec.ID] = EmailRow(AccountID, rec, at)
         /\ \A m \in Range(rec.MailboxIDs) : <<rec.ID, m>> \in db.email_mailboxes

\* the upserts of the fetched records were all made
Upserted == last.fetched # Nil /\ last.err \in {"nil", "SaveSyncState"}

--------------------------------------------------------------------------
\* C1: a sync that finds no SyncState row, or an empty token for its entity
\* type, calls the full fetch and never the delta operation; otherwise its
\* first remote call is the delta operation with exactly the stored token.
C1_FullWithoutTokenElseDelta ==
    ReadSyncState =>
        IF PreState = Nil \/ PreToken = EmptyToken
        THEN /\ Len(last.calls) = 1
             /\ last.calls[1].call = FullCall(last.op)
        ELSE /\ last.calls[1].call = DeltaCall(last.op)
             /\ last.calls[1].since = PreToken

\* an email sync that found a stored email token and asked for the delta
C1_Witness ==
    /\ last.op = "SyncEmails"
    /\ PreToken # EmptyToken
    /\ last.calls[1].call = "GetEmailChanges"

\* C2: when the delta call fails the same call goes on to a full sync, and
\* when that succeeds there is no error, nothing is reported destroyed and
\* the stored token is the one the full fetch returned.
C2_FallbackToFullSync ==
    (last.op \in Syncs /\ last.calls # <<>> /\ last.calls[1].call = DeltaCall(last.op)
        /\ ~last.calls[1].ok) =>
        /\ Len(last.calls) = 2
        /\ last.calls[2].call = FullCall(last.op)
        /\ last.err # DeltaCall(last.op)
        /\ (last.calls[2].ok /\ last.err \notin StoreErrors) =>
              /\ last.err = "nil"
              /\ last.result.MailboxesDestroyed = 0
              /\ last.result.EmailsDestroyed = 0
              /\ PostToken = last.calls[2].state

\* a mailbox sync whose delta call failed and whose full sync went through
C2_Witness ==
    /\ last.op = "SyncMailboxes"
    /\ Len(last.calls) = 2
    /\ ~last.calls[1].ok
    /\ last.err = "nil"

C4_IncrementalEmailSync ==
    (last.op = "SyncEmails" /\ Incremental /\ last.err = "nil") =>
        /\ \A id \in Range(last.changes.Destroyed) \
                     Range(last.changes.Created \o last.changes.Updated) :
              /\ id \notin DOMAIN db.emails
              /\ id \notin DOMAIN db.email_bodies
              /\ \A m \in MailboxIDs : <<id, m>> \notin db.email_mailboxes
        /\ last.fetched # Nil =>
              \A i \in DOMAIN last.fetched.records :
                  StoredAsFetched("SyncEmails", last.fetched.records[i], last.at)
        /\ PostToken = last.changes.NewState

\* an email with a cached body is destroyed and another one is fetched
C4_Witness ==
    /\ last.op = "SyncEmails" /\ Incremental /\ last.err = "nil"
    /\ \E id \in Range(last.changes.Destroyed) \
                 Range(last.changes.Created \o last.changes.Updated) :
          id \in DOMAIN last.pre.email_bodies
    /\ last.fetched # Nil /\ last.fetched.records # <<>>
    /\ PreToken # last.changes.NewState

\* the rows of a table with the updated_at bookkeeping column blanked
WithoutUpdatedAt(rows) == [id \in DOMAIN rows |-> [rows[id] EXCEPT !.updated_at = 0]]

\* the server's current state token for the entity type of the call
RemoteState(op) ==
    IF op = "SyncMailboxes" THEN RemoteMailboxState(remote) ELSE RemoteEmailState(remote)

\* a full mailbox sync against the server as it is now
FullMailboxSyncNow(d) == fullMailboxSync(d, remote, now, NoFailure, 1, <<>>)

\* a full email sync of each of the mailboxes mbs[i..], one after the other
RECURSIVE FullEmailSyncs(_, _, _)
FullEmailSyncs(d, mbs, i) ==
    IF i > Len(mbs) THEN d
    ELSE FullEmailSyncs(fullEmailSync(d, remote, mbs[i], SyncLimit, now, NoFailure,
                                      1, <<>>).db, mbs, i + 1)

\* the email tables a full sync leaves on an empty cache: of the mailbox of the
\* last call alone, or of every mailbox of the server
FullEmailContents ==
    {FullEmailSyncs(EmptyDB, <<last.mailbox>>, 1),
     FullEmailSyncs(EmptyDB, SortedSeq(DOMAIN remote.mailboxes), 1)}

\* C5: from a complete cache, after a chain of successful incremental syncs
\* that has caught up with the server, the rows of the synced entity type
\* (updated_at aside) are those of a full sync against the server as it is:
\* the mailbox rows, resp. the email summary and membership rows.
C5_IncrementalEqualsFull ==
    (last.op \in Syncs /\ last.chain /\ PostToken = RemoteState(last.op)) =>
        IF last.op = "SyncMailboxes"
        THEN WithoutUpdatedAt(db.mailboxes) =
                 WithoutUpdatedAt(FullMailboxSyncNow(EmptyDB).db.mailboxes)
        ELSE \E full \in FullEmailContents :
                /\ WithoutUpdatedAt(db.emails) = WithoutUpdatedAt(full.emails)
                /\ db.email_mailboxes = full.email_mailboxes

\* C6: after a successful SyncEmails the membership rows of every email it
\* fetched are exactly the mailboxes the fetched record names, and GetEmails
\* of any other mailbox does not return that email.
C6_MembershipReflectsRemote ==
    (last.op = "SyncEmails" /\ last.err = "nil" /\ last.fetched # Nil) =>
        \A i \in DOMAIN last.fetched.records, m \in MailboxIDs :
            LET e == last.fetched.records[i]
            IN /\ <<e.ID, m>> \in db.email_mailboxes <=> m \in Range(e.MailboxIDs)
               /\ m \notin Range(e.MailboxIDs) =>
                     \A k \in DOMAIN GetEmails(db, m, SyncLimit) :
                         GetEmails(db, m, SyncLimit)[k].ID # e.ID

\* the mailbox rows of one account
AccountRows(d, accountID) ==
    [id \in {i \in DOMAIN d.mailboxes : d.mailboxes[i].account_id = accountID} |->
        d.mailboxes[id]]

\* the rows a list of mailboxes with distinct IDs is stored as
RowsOf(accountID, mailboxes, at) ==
    [id \in {mailboxes[i].ID : i \in DOMAIN mailboxes} |->
        MailboxRow(accountID, CHOOSE mb \in Range(mailboxes) : mb.ID = id, at)]

\* C7: SaveMailboxes is all-or-nothing: when it fails, at the delete, at any
\* insert or at the commit, the tables are as before the call; when it
\* succeeds the rows of the account are exactly the rows of the list and
\* nothing else has changed.
C7_SaveMailboxesAllOrNothing ==
    last.op = "SaveMailboxes" =>
        IF last.ok
        THEN /\ AccountRows(db, last.args.accountID) =
                    RowsOf(last.args.accountID, last.args.mailboxes, last.at)
             /\ \A a \in Accounts \ {last.args.accountID} :
                    AccountRows(db, a) = AccountRows(last.pre, a)
             /\ [db EXCEPT !.mailboxes = <<>>] = [last.pre EXCEPT !.mailboxes = <<>>]
        ELSE db = last.pre

\* the second insert of a list of two hits the primary key after the delete
\* and the first insert went through, on an account that had rows
C7_Witness ==
    /\ last.op = "SaveMailboxes" /\ ~last.ok /\ last.fail = 0
    /\ Len(last.args.mailboxes) = 2
    /\ last.args.mailboxes[1].ID = last.args.mailboxes[2].ID
    /\ DOMAIN AccountRows(last.pre, last.args.accountID) # {}
    /\ \A a \in Accounts \ {last.args.accountID} :
           last.args.mailboxes[1].ID \notin DOMAIN AccountRows(last.pre, a)

Reads == {"GetMailboxes", "GetEmails", "GetEmailBody"}

\* what the read recorded in l returns on the tables d
ReadOf(l, d) ==
    CASE l.op = "GetMailboxes" -> GetMailboxes(d, AccountID)
      [] l.op = "GetEmails" -> GetEmails(d, l.arg, SyncLimit)
      [] l.op = "GetEmailBody" -> GetEmailBody(d, l.arg)

\* C8: a read made while a bulk write is in progress returns what it returns
\* on the tables before the write or on the tables after the whole write.
C8_ReadersSeeWholeWrites ==
    (last.op \in Reads /\ InTx(last.during)) =>
        \/ last.result = ReadOf(last, last.during.pre)
        \/ last.result = ReadOf(last, Transaction(last.during.pre, last.during.stmts, 0).db)

\* GetMailboxes runs after SaveMailboxes has deleted the old rows and inserted
\* a new one, and the writer's own view differs from what the reader got
C8_Witness ==
    /\ last.op = "GetMailboxes"
    /\ last.during.op = "SaveMailboxes" /\ last.during.pc > 2
    /\ last.result # GetMailboxes(last.during.work, AccountID)

\* the last call was a successful full mailbox sync and the server's mailboxes
\* have not changed since
FullMailboxSyncApplied ==
    /\ last.op = "SyncMailboxes" /\ last.err = "nil" /\ last.changes = Nil
    /\ PostToken = RemoteMailboxState(remote)

\* C9 as stated: a second full mailbox sync of the same payload leaves the
\* same mailbox rows, every column included, and the same mailbox token.
C9_IdempotentReplay ==
    FullMailboxSyncApplied =>
        /\ FullMailboxSyncNow(db).db.mailboxes = db.mailboxes
        /\ TokenOf(GetSyncState(FullMailboxSyncNow(db).db, AccountID), "SyncMailboxes")
              = PostToken

\* C9 amended: a second full mailbox sync of the same payload succeeds and
\* leaves the same mailbox rows with the same values in every column other
\* than updated_at, and the same mailbox token.
C9_IdempotentApartFromUpdatedAt ==
    FullMailboxSyncApplied =>
        /\ FullMailboxSyncNow(db).err = "nil"
        /\ WithoutUpdatedAt(FullMailboxSyncNow(db).db.mailboxes) =
              WithoutUpdatedAt(db.mailboxes)
        /\ TokenOf(GetSyncState(FullMailboxSyncNow(db).db, AccountID), "SyncMailboxes")
              = PostToken

\* the payload is applied again after the clock has moved on
C9_Witness ==
    /\ FullMailboxSyncApplied
    /\ now > last.at
    /\ DOMAIN db.mailboxes # {}

ByIDsCall(op) == IF op = "SyncMailboxes" THEN "GetMailboxesByIDs" ELSE "GetEmailsByIDs"

\* C10 as stated: a sync returns an error only when a Store call failed.
C10_OnlyStoreFailuresSurface ==
    (last.op \in Syncs /\ last.err # "nil") => last.err \in StoreErrors

\* C10 amended: a sync returns an error only when a Store call, the full
\* fetch or the fetch by IDs failed, the remote call being the last one it
\* made; a failure of the delta call alone never makes it return an error.
C10_DeltaFailureNeverSurfaces ==
    last.op \in Syncs =>
        /\ last.err \in StoreErrors \cup {"nil", FullCall(last.op), ByIDsCall(last.op)}
        /\ last.err \in {FullCall(last.op), ByIDsCall(last.op)} =>
              /\ last.calls[Len(last.calls)].call = last.err
              /\ ~last.calls[Len(last.calls)].ok
        /\ (\A i \in DOMAIN last.calls :
                last.calls[i].call # DeltaCall(last.op) => last.calls[i].ok) =>
              last.err \in StoreErrors \cup {"nil"}

\* the email delta call failed, the full fetch went through, no error
C10_Witness ==
    /\ last.op = "SyncEmails"
    /\ Len(last.calls) = 2
    /\ ~last.calls[1].ok /\ last.calls[2].ok
    /\ last.err = "nil"

(***************************************************************************)
(* A sync that returns an error has not touched the sync_state table.      *)
(***************************************************************************)
\* C11: whenever SyncMailboxes or SyncEmails returns an error, whichever call
\* failed, the account's sync_state row (both tokens and last_sync) is exactly
\* the one stored before the call
C11_FailedSyncKeepsSyncState ==
    (last.op \in Syncs /\ last.err # "nil") =>
        /\ db.sync_state = last.pre.sync_state
        /\ GetSyncState(db, AccountID) = PreState

\* a sync with a stored token applied its delta to the tables and then failed
\* to save the new token
C11_Witness ==
    /\ last.op \in Syncs
    /\ last.err = "SaveSyncState"
    /\ PreToken # EmptyToken
    /\ db # last.pre

(***************************************************************************)
(* A sync applies its delta with one Store call per record, each of them   *)
(* committed on its own.                                                   *)
(***************************************************************************)
\* C12: when a Store call fails part-way through a sync, the sync returns that
\* error and the tables are those the Store held before the sync call began
C12_FailedSyncLeavesStoreUntouched ==
    (last.op \in Syncs /\ last.err \in StoreErrors) => db = last.pre

(***************************************************************************)
(* Membership rows under the Store's writes.                               *)
(***************************************************************************)
StoreWrites ==
    {"SaveMailboxes", "SaveEmails", "DeleteEmail", "UpdateEmailMailboxes", "UpdateMailbox",
     "DeleteMailbox", "SaveEmailBody", "UpdateEmailFlags", "PurgeOldBodies",
     "SaveSyncState", "ClearCache"}

\* the write removed a membership row
RemovedMembership == \E pair \in last.pre.email_mailboxes : pair \notin db.email_mailboxes

\* C20 as stated: SaveEmails removes no membership row, and no Store write
\* other than UpdateEmailMailboxes and DeleteEmail removes one
C20_OnlyTwoWritesRemoveMemberships ==
    (last.op \in StoreWrites /\ RemovedMembership) =>
        last.op \in {"UpdateEmailMailboxes", "DeleteEmail"}

\* C20: SaveEmails only adds membership rows: every (email, mailbox) row
\* stored before the call is stored after it, whatever MailboxIDs the saved
\* emails carry; the only Store writes that remove a membership row are
\* UpdateEmailMailboxes, DeleteEmail and ClearCache
C20_SaveEmailsOnlyAddsMemberships ==
    /\ last.op = "SaveEmails" =>
          /\ last.pre.email_mailboxes \subseteq db.email_mailboxes
          /\ last.ok =>
                \A i \in 1..Len(last.args.emails) :
                    \A k \in 1..Len(last.args.emails[i].MailboxIDs) :
                        <<last.args.emails[i].ID, last.args.emails[i].MailboxIDs[k]>>
                            \in db.email_mailboxes
    /\ (last.op \in StoreWrites /\ RemovedMembership) =>
          last.op \in {"UpdateEmailMailboxes", "DeleteEmail", "ClearCache"}

\* SaveEmails succeeded for an email stored in a mailbox that its MailboxIDs
\* no longer list, and the old row is still there beside the new one
C20_Witness ==
    /\ last.op = "SaveEmails"
    /\ last.ok
    /\ \E i \in 1..Len(last.args.emails) :
          \E pair \in last.pre.email_mailboxes :
             /\ pair[1] = last.args.emails[i].ID
             /\ \A k \in 1..Len(last.args.emails[i].MailboxIDs) :
                   pair[2] # last.args.emails[i].MailboxIDs[k]
             /\ pair \in db.email_mailboxes
             /\ db.email_mailboxes # last.pre.email_mailboxes

(***************************************************************************)
(* The UI program (App), a Bubble Tea model.  Init and every Update return *)
(* commands; the runtime runs each command in a goroutine of its own and   *)
(* hands the message it returns to Update, one message at a time, in the   *)
(* order the commands finish.  A command in flight is a record [cmd, arg,  *)
(* pc, msg, res, batch]: pc is "start" until its function has run ("emails"*)
(* between the two Syncer calls of a sync cycle) and "done" while its      *)
(* message waits for Update; batch names the commands returned together    *)
(* with it.  The selection keys (up, down) are folded into the key that    *)
(* opens the selected mailbox or email.                                    *)
(***************************************************************************)
\* config.DefaultConfig().PageSize
PageSize == 50

mailboxesLoadedMsg(mailboxes, fromCache, err) ==
    [type |-> "mailboxesLoadedMsg", mailboxes |-> mailboxes, fromCache |-> fromCache,
     err |-> err]

emailsLoadedMsg(emails, fromCache, err) ==
    [type |-> "emailsLoadedMsg", emails |-> emails, fromCache |-> fromCache, err |-> err]

emailLoadedMsg(email, fromCache, err) ==
    [type |-> "emailLoadedMsg", email |-> email, fromCache |-> fromCache, err |-> err]

syncCompleteMsg(mailboxResult, emailResult, err) ==
    [type |-> "syncCompleteMsg", mailboxResult |-> mailboxResult,
     emailResult |-> emailResult, err |-> err]

emailActionMsg(err) == [type |-> "emailActionMsg", err |-> err]

\* which calls of a loader command fail: its cache read, its remote call and
\* its Store write
LoadFailures == [cache : BOOLEAN, net : BOOLEAN, save : 0..1]

\* the failures of one Syncer call of a background sync cycle
AppFailurePlans == {fp \in FailurePlans : fp.stmt = 1 /\ fp.op <= 2 /\ ~fp.byIDs}

\* Syncer.GetCachedMailboxes / GetCachedEmails / GetCachedEmailBody: the Store
\* read, or its error
GetCachedMailboxes(d, fail) ==
    IF fail THEN [read |-> TRUE, err |-> "GetMailboxes", mailboxes |-> <<>>]
    ELSE [read |-> TRUE, err |-> "nil", mailboxes |-> GetMailboxes(d, AccountID)]

GetCachedEmails(d, mailboxID, limit, fail) ==
    IF fail THEN [read |-> TRUE, err |-> "GetEmails", emails |-> <<>>]
    ELSE [read |-> TRUE, err |-> "nil", emails |-> GetEmails(d, mailboxID, limit)]

GetCachedEmailBody(d, emailID, fail) ==
    IF fail THEN [read |-> TRUE, err |-> "GetEmailBody", email |-> Nil]
    ELSE [read |-> TRUE, err |-> "nil", email |-> GetEmailBody(d, emailID)]

\* the command did not read the cache
NotRead == [read |-> FALSE]

\* Email/set with a mailboxIds patch: the email is in toMailboxID only; the
\* response is not read, so an unknown email changes nothing and is no error
ClientMoveEmail(r, emailID, toMailboxID) ==
    IF emailID \notin DOMAIN r.emails THEN r
    ELSE LogEmail([r EXCEPT !.emails[emailID].MailboxIDs = <<toMailboxID>>], emailID,
                  "updated")

\* Email/set keywords/$seen = true
ClientMarkAsRead(r, emailID) ==
    LogEmail([r EXCEPT !.emails[emailID].IsUnread = FALSE], emailID, "updated")

\* what a command function leaves: its message, the tables, the server, the
\* remote calls it made and what its cache read returned
Done(msg, d, r, calls, cache) ==
    [msg |-> msg, db |-> d, remote |-> r, calls |-> calls, cache |-> cache]

\* mutant: the mailboxes are fetched although the cache returned some
loadMailboxesAlwaysFetching(d, r, lf) ==
    Bind(GetCachedMailboxes(d, lf.cache), LAMBDA c :
      IF lf.net
      THEN Done(mailboxesLoadedMsg(<<>>, FALSE, "GetMailboxes"), d, r, <<"GetMailboxes">>, c)
      ELSE Done(mailboxesLoadedMsg(ClientGetMailboxes(r), FALSE, "nil"), d, r,
                <<"GetMailboxes">>, c))

loadMailboxesCacheFirst(d, r, lf) ==
    Bind(GetCachedMailboxes(d, lf.cache), LAMBDA c :
      IF c.err = "nil" /\ Len(c.mailboxes) > 0
      THEN Done(mailboxesLoadedMsg(c.mailboxes, TRUE, "nil"), d, r, <<>>, c)
      ELSE IF lf.net
      THEN Done(mailboxesLoadedMsg(<<>>, FALSE, "GetMailboxes"), d, r, <<"GetMailboxes">>, c)
      ELSE Done(mailboxesLoadedMsg(ClientGetMailboxes(r), FALSE, "nil"), d, r,
                <<"GetMailboxes">>, c))

\* client.GetEmails, then SaveEmails of a non-empty result, its error dropped
FetchEmails(d, r, mailboxID, at, lf, c) ==
    IF lf.net
    THEN Done(emailsLoadedMsg(<<>>, FALSE, "GetEmails"), d, r, <<"GetEmails">>, c)
    ELSE Bind(ClientGetEmails(r, mailboxID, PageSize), LAMBDA emails :
           Done(emailsLoadedMsg(emails, FALSE, "nil"),
                IF Len(emails) > 0
                THEN SaveEmails(d, AccountID, emails, at, lf.save).db ELSE d,
                r, <<"GetEmails">>, c))

loadEmails(d, r, mailboxID, at, lf) ==
    Bind(GetCachedEmails(d, mailboxID, PageSize, lf.cache), LAMBDA c :
      IF c.err = "nil" /\ Len(c.emails) > 0
      THEN Done(emailsLoadedMsg(c.emails, TRUE, "nil"), d, r, <<>>, c)
      ELSE FetchEmails(d, r, mailboxID, at, lf, c))

loadEmailsFresh(d, r, mailboxID, at, lf) == FetchEmails(d, r, mailboxID, at, lf, NotRead)

loadEmail(d, r, emailID, at, lf) ==
    Bind(GetCachedEmailBody(d, emailID, lf.cache), LAMBDA c :
      IF c.err = "nil" /\ c.email # Nil /\ (c.email.TextBody # "" \/ c.email.HTMLBody # "")
      THEN Done(emailLoadedMsg(c.email, TRUE, "nil"), d, r, <<>>, c)
      ELSE IF lf.net \/ emailID \notin DOMAIN r.emails
      THEN Done(emailLoadedMsg(Nil, FALSE, "GetEmail"), d, r, <<"GetEmail">>, c)
      ELSE Bind(ClientGetEmail(r, emailID), LAMBDA email :
             Done(emailLoadedMsg(email, FALSE, "nil"),
                  SaveEmailBody(d, email, at, lf.save).db, r, <<"GetEmail">>, c)))

\* the closures of the syncCompleteMsg handler: a cache read and nothing else
reloadMailboxes(d, r, lf) ==
    Bind(GetCachedMailboxes(d, lf.cache), LAMBDA c :
      Done(mailboxesLoadedMsg(c.mailboxes, TRUE, c.err), d, r, <<>>, c))

reloadEmails(d, r, mailboxID, lf) ==
    Bind(GetCachedEmails(d, mailboxID, PageSize, lf.cache), LAMBDA c :
      Done(emailsLoadedMsg(c.emails, TRUE, c.err), d, r, <<>>, c))

\* the mailbox with the role, "" when the list has none
MailboxWithRole(mailboxes, role) ==
    IF \E i \in 1..Len(mailboxes) : mailboxes[i].Role = role
    THEN mailboxes[CHOOSE i \in 1..Len(mailboxes) :
                     /\ mailboxes[i].Role = role
                     /\ \A j \in 1..(i - 1) : mailboxes[j].Role # role].ID
    ELSE ""

\* the thread has one email
archiveThread(d, r, mailboxes, emailID, lf) ==
    Bind(MailboxWithRole(mailboxes, "archive"), LAMBDA archiveID :
      IF archiveID = ""
      THEN Done(emailActionMsg("archive mailbox not found"), d, r, <<>>, NotRead)
      ELSE IF lf.net
      THEN Done(emailActionMsg("MoveEmail"), d, r, <<"MoveEmail">>, NotRead)
      ELSE Done(emailActionMsg("nil"), d, ClientMoveEmail(r, emailID, archiveID),
                <<"MoveEmail">>, NotRead))

(***************************************************************************)
(* App.Update: the model a handler leaves, the tables, the server and the  *)
(* commands it returns.                                                    *)
(***************************************************************************)
Cmd(name, arg) ==
    [cmd |-> name, arg |-> arg, pc |-> "start", msg |-> Nil, res |-> Nil, batch |-> {}]

Handled(a, d, r, cmds) == [ui |-> a, db |-> d, remote |-> r, cmds |-> cmds]

\* index in a.mailboxes (from 0) of the first mailbox with role "inbox", -1
\* without one
InboxIndex(mailboxes) ==
    IF \E i \in 1..Len(mailboxes) : mailboxes[i].Role = "inbox"
    THEN (CHOOSE i \in 1..Len(mailboxes) :
            /\ mailboxes[i].Role = "inbox"
            /\ \A j \in 1..(i - 1) : mailboxes[j].Role # "inbox") - 1
    ELSE 0 - 1

UpdateMailboxesLoaded(a, d, r, msg, at, fail) ==
    IF msg.err # "nil"
    THEN Handled([a EXCEPT !.loading = FALSE, !.err = msg.err], d, r, <<>>)
    ELSE
    LET i == InboxIndex(msg.mailboxes)
        inboxID == IF i >= 0 THEN msg.mailboxes[i + 1].ID
                   ELSE IF Len(msg.mailboxes) > 0 THEN msg.mailboxes[1].ID ELSE ""
    IN Handled([a EXCEPT !.loading = inboxID # "",
                         !.mailboxes = msg.mailboxes,
                         !.selectedMailbox = IF i >= 0 THEN i ELSE @,
                         !.syncing = IF inboxID # "" /\ msg.fromCache THEN TRUE ELSE @],
               IF ~msg.fromCache
               THEN SaveMailboxes(d, AccountID, msg.mailboxes, at, fail).db ELSE d,
               r,
               IF inboxID = "" THEN <<>>
               ELSE <<Cmd("loadEmails", inboxID)>> \o
                    (IF msg.fromCache THEN <<Cmd("syncInBackground", inboxID)>> ELSE <<>>))

\* mutant: a sync cycle is scheduled for a list served from the cache
UpdateEmailsLoadedThenSync(a, d, r, msg) ==
    IF msg.err # "nil"
    THEN Handled([a EXCEPT !.loading = FALSE, !.err = msg.err], d, r, <<>>)
    ELSE Handled([a EXCEPT !.loading = FALSE, !.emails = msg.emails,
                           !.viewState = "messages",
                           !.syncing = IF msg.fromCache THEN TRUE ELSE @],
                 d, r,
                 IF msg.fromCache /\ a.selectedMailbox < Len(a.mailboxes)
                 THEN <<Cmd("syncInBackground", a.mailboxes[a.selectedMailbox + 1].ID)>>
                 ELSE <<>>)

\* mutant: a failed load of the emails only stops the spinner
UpdateEmailsLoadedHidingError(a, d, r, msg) ==
    IF msg.err # "nil"
    THEN Handled([a EXCEPT !.loading = FALSE], d, r, <<>>)
    ELSE Handled([a EXCEPT !.loading = FALSE, !.emails = msg.emails,
                           !.viewState = "messages"], d, r, <<>>)

UpdateEmailsLoaded(a, d, r, msg) ==
    IF msg.err # "nil"
    THEN Handled([a EXCEPT !.loading = FALSE, !.err = msg.err], d, r, <<>>)
    ELSE Handled([a EXCEPT !.loading = FALSE, !.emails = msg.emails,
                           !.viewState = "messages"], d, r, <<>>)

\* go a.client.MarkAsRead(id): marked says whether the request got through
UpdateEmailLoaded(a, d, r, msg, marked) ==
    IF msg.err # "nil"
    THEN Handled([a EXCEPT !.loading = FALSE, !.err = msg.err], d, r, <<>>)
    ELSE Handled([a EXCEPT !.loading = FALSE, !.currentEmail = msg.email,
                           !.viewState = "email"], d,
                 IF msg.email.IsUnread /\ marked /\ msg.email.ID \in DOMAIN r.emails
                 THEN ClientMarkAsRead(r, msg.email.ID) ELSE r,
                 <<>>)

UpdateEmailAction(a, d, r, msg) ==
    Handled(IF msg.err # "nil" THEN [a EXCEPT !.err = msg.err] ELSE a, d, r,
            IF Len(a.mailboxes) > 0 /\ a.selectedMailbox < Len(a.mailboxes)
            THEN <<Cmd("loadEmailsFresh", a.mailboxes[a.selectedMailbox + 1].ID)>>
            ELSE <<>>)

MailboxCounts(result) ==
    result.MailboxesCreated + result.MailboxesUpdated + result.MailboxesDestroyed

EmailCounts(result) ==
    result.EmailsCreated + result.EmailsUpdated + result.EmailsDestroyed

\* mutant: the error of the sync cycle is shown like that of a load
UpdateSyncCompleteShowingError(a, d, r, msg) ==
    IF msg.err # "nil"
    THEN Handled([a EXCEPT !.syncing = FALSE, !.loading = FALSE, !.err = msg.err], d, r, <<>>)
    ELSE Handled([a EXCEPT !.syncing = FALSE], d, r,
           (IF msg.mailboxResult # Nil /\ MailboxCounts(msg.mailboxResult) > 0
            THEN <<Cmd("reloadMailboxes", "")>> ELSE <<>>) \o
           (IF /\ msg.emailResult # Nil /\ EmailCounts(msg.emailResult) > 0
               /\ Len(a.mailboxes) > 0 /\ a.selectedMailbox < Len(a.mailboxes)
            THEN <<Cmd("reloadEmails", a.mailboxes[a.selectedMailbox + 1].ID)>>
            ELSE <<>>))

UpdateSyncComplete(a, d, r, msg) ==
    IF msg.err # "nil" THEN Handled([a EXCEPT !.syncing = FALSE], d, r, <<>>)
    ELSE Handled([a EXCEPT !.syncing = FALSE], d, r,
           (IF msg.mailboxResult # Nil /\ MailboxCounts(msg.mailboxResult) > 0
            THEN <<Cmd("reloadMailboxes", "")>> ELSE <<>>) \o
           (IF /\ msg.emailResult # Nil /\ EmailCounts(msg.emailResult) > 0
               /\ Len(a.mailboxes) > 0 /\ a.selectedMailbox < Len(a.mailboxes)
            THEN <<Cmd("reloadEmails", a.mailboxes[a.selectedMailbox + 1].ID)>>
            ELSE <<>>))

(***************************************************************************)
(* The program running: Init's command, the commands in flight, the        *)
(* messages handled by Update and the keys.  app.cmds is the bag of the    *)
(* commands in flight, app.events counts the keys pressed and the failures *)
(* injected so far, and app.last records the last step: a command function *)
(* that ran (what it read, called and returned), a message handled (with   *)
(* the commands Update returned) or a key.                                 *)
(***************************************************************************)
\* the server's account: an inbox holding one email, and an archive
AppRemote ==
    [mailboxes |-> ("m1" :> Mailbox("m1", "Inbox", "inbox", 0)) @@
                   ("m2" :> Mailbox("m2", "Archive", "archive", 1)),
     emails |-> ("e1" :> Email("e1", <<"m1">>, "s1", TRUE, FALSE)),
     mbLog |-> <<>>, emLog |-> <<>>]

\* the cache a first run leaves: the lists it fetched, no sync state
FirstRunDB ==
    Bind(SaveMailboxes(EmptyDB, AccountID, ClientGetMailboxes(AppRemote), 1, 0).db,
         LAMBDA d : SaveEmails(d, AccountID, ClientGetEmails(AppRemote, "m1", PageSize),
                               1, 0).db)

\* NewApp
NewApp ==
    [mailboxes |-> <<>>, selectedMailbox |-> 0, emails |-> <<>>, currentEmail |-> Nil,
     viewState |-> "folders", loading |-> TRUE, syncing |-> FALSE, err |-> "nil"]

\* App.Init returns loadMailboxesCacheFirst
InitApp ==
    /\ db \in {EmptyDB, FirstRunDB}
    /\ remote = AppRemote
    /\ now = 1
    /\ last = NoCall
    /\ tx = NoTx
    /\ app = [ui |-> NewApp, cmds |-> SetToBag({Cmd("loadMailboxesCacheFirst", "")}),
              events |-> 0, last |-> [step |-> "init"]]

\* the commands of one tea.Batch, each knowing the others
RECURSIVE BatchFrom(_, _)
BatchFrom(cmds, k) ==
    IF k > Len(cmds) THEN EmptyBag
    ELSE SetToBag({[cmds[k] EXCEPT !.batch = {cmds[j].cmd : j \in 1..Len(cmds)}]})
         (+) BatchFrom(cmds, k + 1)

Batch(cmds) == BatchFrom(cmds, 1)

\* the failures a plan injects
LoadFaults(lf) ==
    (IF lf.cache THEN 1 ELSE 0) + (IF lf.net THEN 1 ELSE 0) + (IF lf.save # 0 THEN 1 ELSE 0)

SyncFaults(fp) ==
    (IF fp.delta THEN 1 ELSE 0) + (IF fp.full THEN 1 ELSE 0) + (IF fp.op # 0 THEN 1 ELSE 0)

CmdNames(cmds) == [k \in 1..Len(cmds) |-> cmds[k].cmd]

\* the remote calls a Syncer call made
CallNames(calls) == [k \in 1..Len(calls) |-> calls[k].call]

Starts(c, name, faults) ==
    /\ c.cmd = name
    /\ c.pc = "start"
    /\ app.events + faults <= MaxEvents

\* the command function returns: its message waits for Update
Returns(c, out, faults) ==
    /\ db' = out.db
    /\ remote' = out.remote
    /\ app' = [app EXCEPT !.cmds = (@ (-) SetToBag({c})) (+)
                                   SetToBag({[c EXCEPT !.pc = "done", !.msg = out.msg]}),
                          !.events = @ + faults,
                          !.last = [step |-> "cmd", cmd |-> c.cmd, arg |-> c.arg,
                                    cache |-> out.cache, calls |-> out.calls,
                                    msg |-> out.msg]]

RunLoadMailboxesCacheFirst ==
    /\ \E c \in BagToSet(app.cmds), lf \in LoadFailures :
         /\ Starts(c, "loadMailboxesCacheFirst", LoadFaults(lf))
         /\ \E out \in {loadMailboxesCacheFirst(db, remote, lf)} : Returns(c, out, LoadFaults(lf))
    /\ UNCHANGED <<now, last, tx>>

RunLoadEmails ==
    /\ \E c \in BagToSet(app.cmds), lf \in LoadFailures :
         /\ Starts(c, "loadEmails", LoadFaults(lf))
         /\ \E out \in {loadEmails(db, remote, c.arg, now, lf)} : Returns(c, out, LoadFaults(lf))
    /\ UNCHANGED <<now, last, tx>>

RunLoadEmailsFresh ==
    /\ \E c \in BagToSet(app.cmds), lf \in LoadFailures :
         /\ Starts(c, "loadEmailsFresh", LoadFaults(lf))
         /\ \E out \in {loadEmailsFresh(db, remote, c.arg, now, lf)} :
              Returns(c, out, LoadFaults(lf))
    /\ UNCHANGED <<now, last, tx>>

RunLoadEmail ==
    /\ \E c \in BagToSet(app.cmds), lf \in LoadFailures :
         /\ Starts(c, "loadEmail", LoadFaults(lf))
         /\ \E out \in {loadEmail(db, remote, c.arg, now, lf)} : Returns(c, out, LoadFaults(lf))
    /\ UNCHANGED <<now, last, tx>>

RunReloadMailboxes ==
    /\ \E c \in BagToSet(app.cmds), lf \in LoadFailures :
         /\ Starts(c, "reloadMailboxes", LoadFaults(lf))
         /\ \E out \in {reloadMailboxes(db, remote, lf)} : Returns(c, out, LoadFaults(lf))
    /\ UNCHANGED <<now, last, tx>>

RunReloadEmails ==
    /\ \E c \in BagToSet(app.cmds), lf \in LoadFailures :
         /\ Starts(c, "reloadEmails", LoadFaults(lf))
         /\ \E out \in {reloadEmails(db, remote, c.arg, lf)} : Returns(c, out, LoadFaults(lf))
    /\ UNCHANGED <<now, last, tx>>

\* the goroutine reads a.mailboxes as it is when it runs
RunArchiveThread ==
    /\ \E c \in BagToSet(app.cmds), lf \in LoadFailures :
         /\ Starts(c, "archiveThread", LoadFaults(lf))
         /\ \E out \in {archiveThread(db, remote, app.ui.mailboxes, c.arg, lf)} :
              Returns(c, out, LoadFaults(lf))
    /\ UNCHANGED <<now, last, tx>>

\* the server cannot calculate changes from the client's tokens (they are too
\* old): every delta call fails until the account is synced afresh, which the
\* server of this model never does
DeltaDown(r) == "cannotCalculateChanges" \in DOMAIN r

\* the failures of one Syncer call: those injected and those of the server
PlanAgainst(r, fp) == IF DeltaDown(r) THEN [fp EXCEPT !.delta = TRUE] ELSE fp

\* mutant: the error of SyncMailboxes does not end the cycle
RunSyncMailboxesIgnoringError ==
    /\ \E c \in BagToSet(app.cmds), fp \in AppFailurePlans :
         /\ Starts(c, "syncInBackground", SyncFaults(fp))
         /\ \E out \in {SyncMailboxes(db, remote, now, PlanAgainst(remote, fp))} :
              /\ db' = out.db
              /\ app' = [app EXCEPT !.cmds = (@ (-) SetToBag({c})) (+)
                                       SetToBag({[c EXCEPT !.pc = "emails",
                                                           !.res = out.result]}),
                                    !.events = @ + SyncFaults(fp),
                                    !.last = [step |-> "sync"]]
              /\ UNCHANGED remote
    /\ UNCHANGED <<now, last, tx>>

\* syncInBackground up to the return of SyncMailboxes
RunSyncMailboxes ==
    /\ \E c \in BagToSet(app.cmds), fp \in AppFailurePlans :
         /\ Starts(c, "syncInBackground", SyncFaults(fp))
         /\ \E out \in {SyncMailboxes(db, remote, now, PlanAgainst(remote, fp))} :
              IF out.err # "nil"
              THEN Returns(c, Done(syncCompleteMsg(Nil, Nil, out.err), out.db, remote,
                                   CallNames(out.calls), NotRead), SyncFaults(fp))
              ELSE /\ db' = out.db
                   /\ app' = [app EXCEPT !.cmds = (@ (-) SetToBag({c})) (+)
                                            SetToBag({[c EXCEPT !.pc = "emails",
                                                                !.res = out.result]}),
                                         !.events = @ + SyncFaults(fp),
                                         !.last = [step |-> "sync"]]
                   /\ UNCHANGED remote
    /\ UNCHANGED <<now, last, tx>>

\* syncInBackground from SyncEmails(mailboxID, 100) to its return
RunSyncEmails ==
    /\ \E c \in BagToSet(app.cmds), fp \in AppFailurePlans :
         /\ c.cmd = "syncInBackground"
         /\ c.pc = "emails"
         /\ app.events + SyncFaults(fp) <= MaxEvents
         /\ \E out \in {SyncEmails(db, remote, c.arg, SyncLimit, now,
                                  PlanAgainst(remote, fp))} :
              Returns(c, Done(syncCompleteMsg(c.res, out.result, out.err),
                              out.db, remote, CallNames(out.calls), NotRead),
                      SyncFaults(fp))
    /\ UNCHANGED <<now, last, tx>>

Delivers(c, type, faults) ==
    /\ c.pc = "done"
    /\ c.msg.type = type
    /\ app.events + faults <= MaxEvents

\* Update has handled the message of command i and returned h.cmds
Updated(c, h, faults) ==
    /\ db' = h.db
    /\ remote' = h.remote
    /\ app' = [app EXCEPT !.ui = h.ui,
                          !.cmds = (@ (-) SetToBag({c})) (+) Batch(h.cmds),
                          !.events = @ + faults,
                          !.last = [step |-> "update", from |-> c.cmd, arg |-> c.arg,
                                    batch |-> c.batch, msg |-> c.msg,
                                    scheduled |-> Range(CmdNames(h.cmds))]]

HandleMailboxesLoaded ==
    /\ \E c \in BagToSet(app.cmds), fail \in 0..1 :
         /\ Delivers(c, "mailboxesLoadedMsg", fail)
         /\ \E h \in {UpdateMailboxesLoaded(app.ui, db, remote, c.msg, now, fail)} :
              Updated(c, h, fail)
    /\ UNCHANGED <<now, last, tx>>

HandleEmailsLoaded ==
    /\ \E c \in BagToSet(app.cmds) :
         /\ Delivers(c, "emailsLoadedMsg", 0)
         /\ \E h \in {UpdateEmailsLoaded(app.ui, db, remote, c.msg)} : Updated(c, h, 0)
    /\ UNCHANGED <<now, last, tx>>

HandleEmailLoaded ==
    /\ \E c \in BagToSet(app.cmds), marked \in BOOLEAN :
         /\ Delivers(c, "emailLoadedMsg", IF marked THEN 0 ELSE 1)
         /\ \E h \in {UpdateEmailLoaded(app.ui, db, remote, c.msg, marked)} :
              Updated(c, h, IF marked THEN 0 ELSE 1)
    /\ UNCHANGED <<now, last, tx>>

HandleEmailAction ==
    /\ \E c \in BagToSet(app.cmds) :
         /\ Delivers(c, "emailActionMsg", 0)
         /\ \E h \in {UpdateEmailAction(app.ui, db, remote, c.msg)} : Updated(c, h, 0)
    /\ UNCHANGED <<now, last, tx>>

HandleSyncComplete ==
    /\ \E c \in BagToSet(app.cmds) :
         /\ Delivers(c, "syncCompleteMsg", 0)
         /\ \E h \in {UpdateSyncComplete(app.ui, db, remote, c.msg)} : Updated(c, h, 0)
    /\ UNCHANGED <<now, last, tx>>

\* a key handler has changed the model and returned cmds
Pressed(key, a, cmds) ==
    /\ app' = [app EXCEPT !.ui = a, !.cmds = @ (+) Batch(cmds), !.events = @ + 1,
                          !.last = [step |-> "key", key |-> key]]
    /\ UNCHANGED <<db, remote, now, last, tx>>

\* handleFoldersKeys, Enter on the selected mailbox
KeyOpenMailbox ==
    /\ app.events < MaxEvents
    /\ app.ui.viewState = "folders"
    /\ Len(app.ui.mailboxes) > 0
    /\ \E i \in 0..(Len(app.ui.mailboxes) - 1) :
         Pressed("open mailbox",
                 [app.ui EXCEPT !.selectedMailbox = i, !.loading = TRUE],
                 <<Cmd("loadEmails", app.ui.mailboxes[i + 1].ID)>>)

\* handleMessagesKeys, Enter on the selected thread
KeyOpenEmail ==
    /\ app.events < MaxEvents
    /\ app.ui.viewState = "messages"
    /\ \E i \in 1..Len(app.ui.emails) :
         Pressed("open email", [app.ui EXCEPT !.loading = TRUE],
                 <<Cmd("loadEmail", app.ui.emails[i].ID)>>)

\* handleMessagesKeys, refresh
KeyRefresh ==
    /\ app.events < MaxEvents
    /\ app.ui.viewState = "messages"
    /\ Len(app.ui.mailboxes) > 0
    /\ app.ui.selectedMailbox < Len(app.ui.mailboxes)
    /\ Pressed("refresh", [app.ui EXCEPT !.loading = TRUE],
               <<Cmd("loadEmailsFresh", app.ui.mailboxes[app.ui.selectedMailbox + 1].ID)>>)

\* handleMessagesKeys, archive the selected thread
KeyArchive ==
    /\ app.events < MaxEvents
    /\ app.ui.viewState = "messages"
    /\ \E i \in 1..Len(app.ui.emails) :
         Pressed("archive", app.ui, <<Cmd("archiveThread", app.ui.emails[i].ID)>>)

\* handleMessagesKeys and handleEmailKeys, back
KeyBack ==
    /\ app.events < MaxEvents
    /\ app.ui.viewState \in {"messages", "email"}
    /\ Pressed("back",
               IF app.ui.viewState = "email"
               THEN [app.ui EXCEPT !.viewState = "messages", !.currentEmail = Nil]
               ELSE [app.ui EXCEPT !.viewState = "folders"],
               <<>>)

NextApp ==
    \/ RunLoadMailboxesCacheFirst
    \/ RunLoadEmails
    \/ RunLoadEmailsFresh
    \/ RunLoadEmail
    \/ RunReloadMailboxes
    \/ RunReloadEmails
    \/ RunArchiveThread
    \/ RunSyncMailboxes
    \/ RunSyncEmails
    \/ HandleMailboxesLoaded
    \/ HandleEmailsLoaded
    \/ HandleEmailLoaded
    \/ HandleEmailAction
    \/ HandleSyncComplete
    \/ KeyOpenMailbox
    \/ KeyOpenEmail
    \/ KeyRefresh
    \/ KeyArchive
    \/ KeyBack

SpecApp == InitApp /\ [][NextApp]_vars

(***************************************************************************)
(* The Loader: cache first, then the network.                              *)
(***************************************************************************)
\* the last step ran the command function
Ran(cmd) == app.last.step = "cmd" /\ app.last.cmd = cmd

\* the last step was Update handling the message of the command
Handles(cmd) == app.last.step = "update" /\ app.last.from = cmd

IDsOf(list) == {list[k].ID : k \in 1..Len(list)}

\* sync cycles scheduled whose completion Update has not handled yet
SyncsInFlight ==
    BagCardinality([c \in {x \in BagToSet(app.cmds) : x.cmd = "syncInBackground"} |->
                       app.cmds[c]])

\* C13: when the cache read returns at least one mailbox, load-mailboxes
\* delivers exactly that list tagged fromCache=true and makes no remote call;
\* load-emails for a mailbox does the same when the cache read returns at
\* least one email of the mailbox
C13_CacheHitMakesNoRemoteCall ==
    /\ (/\ Ran("loadMailboxesCacheFirst")
        /\ app.last.cache.err = "nil"
        /\ Len(app.last.cache.mailboxes) > 0) =>
          /\ app.last.cache.mailboxes = GetMailboxes(db, AccountID)
          /\ app.last.msg = mailboxesLoadedMsg(app.last.cache.mailboxes, TRUE, "nil")
          /\ app.last.calls = <<>>
    /\ (/\ Ran("loadEmails")
        /\ app.last.cache.err = "nil"
        /\ Len(app.last.cache.emails) > 0) =>
          /\ app.last.cache.emails = GetEmails(db, app.last.arg, PageSize)
          /\ app.last.msg = emailsLoadedMsg(app.last.cache.emails, TRUE, "nil")
          /\ app.last.calls = <<>>

\* the emails of a mailbox were served from the cache although the server no
\* longer lists the same emails in it
C13_Witness ==
    /\ Ran("loadEmails")
    /\ app.last.msg.fromCache
    /\ IDsOf(app.last.msg.emails) # IDsOf(ClientGetEmails(remote, app.last.arg, PageSize))

\* C14: with an empty mailbox cache, load-mailboxes calls the server's mailbox
\* fetch exactly once and tags the result fromCache=false, and once Update has
\* handled a successful fetch the Store returns the fetched mailboxes, so the
\* next load-mailboxes is served from the cache
C14_CacheMissFetchesOnceAndSaves ==
    /\ (/\ Ran("loadMailboxesCacheFirst")
        /\ app.last.cache.err = "nil"
        /\ app.last.cache.mailboxes = <<>>) =>
          /\ app.last.calls = <<"GetMailboxes">>
          /\ ~app.last.msg.fromCache
    /\ (/\ Handles("loadMailboxesCacheFirst")
        /\ ~app.last.msg.fromCache
        /\ app.last.msg.err = "nil") =>
          /\ Range(GetMailboxes(db, AccountID)) = Range(app.last.msg.mailboxes)
          /\ loadMailboxesCacheFirst(db, remote, [cache |-> FALSE, net |-> FALSE,
                                                  save |-> 0]).msg.fromCache

(***************************************************************************)
(* The background sync cycle of the Loader.                                *)
(***************************************************************************)
\* Update has handled the completion of a sync cycle
SyncHandled == app.last.step = "update" /\ app.last.msg.type = "syncCompleteMsg"

\* C15: when the sync cycle whose completion Update handles has reported a
\* created, updated or destroyed count above 0 for the mailboxes, the re-read
\* of the mailboxes from the Store is scheduled, also when the email part of
\* the cycle failed; and likewise the re-read of the emails for a count above
\* 0 for the emails
C15_CountsTriggerReload ==
    SyncHandled =>
      /\ (/\ app.last.msg.mailboxResult # Nil
          /\ MailboxCounts(app.last.msg.mailboxResult) > 0) =>
            "reloadMailboxes" \in app.last.scheduled
      /\ (/\ app.last.msg.emailResult # Nil
          /\ EmailCounts(app.last.msg.emailResult) > 0) =>
            "reloadEmails" \in app.last.scheduled

\* C16: when Update handles the result of load-mailboxes or of load-emails
\* for a mailbox that was served from the cache, a background sync cycle is
\* scheduled: Update returns it, or it was returned together with the load
C16_CacheServedLoadSchedulesSync ==
    (/\ app.last.step = "update"
     /\ app.last.from \in {"loadMailboxesCacheFirst", "loadEmails"}
     /\ app.last.msg.err = "nil"
     /\ app.last.msg.fromCache) =>
        "syncInBackground" \in (app.last.scheduled \cup app.last.batch)

\* C17: in every reachable state at most one background sync cycle is in
\* flight, that is scheduled with its completion not yet handled by Update,
\* whatever the interleaving of keys, load completions and sync completions
C17_AtMostOneSyncInFlight == SyncsInFlight <= 1

\* a sync cycle has completed with changes, the mailboxes were re-read from
\* the cache and Update schedules the next cycle, the only one in flight
C17_Witness ==
    /\ Handles("reloadMailboxes")
    /\ "syncInBackground" \in app.last.scheduled
    /\ SyncsInFlight = 1

(***************************************************************************)
(* Force refresh and write-through.                                        *)
(***************************************************************************)
\* C18: force refresh of a mailbox never reads the cache, makes exactly one
\* network fetch, and after a successful fetch the emails the Store returns
\* for the mailbox are exactly the fetched ones
C18_ForceRefreshOverwritesStore ==
    Ran("loadEmailsFresh") =>
      /\ ~app.last.cache.read
      /\ app.last.calls = <<"GetEmails">>
      /\ app.last.msg.err = "nil" =>
           IDsOf(GetEmails(db, app.last.arg, PageSize)) = IDsOf(app.last.msg.emails)

\* the command returned what a successful network fetch gave it
Fetches(cmd) == Ran(cmd) /\ ~app.last.msg.fromCache /\ app.last.msg.err = "nil"

\* C19: when a load returns an email list or an email body that a successful
\* network fetch gave it (cache miss or force refresh), the Store holds it:
\* every email of the list with its mailboxes, and the body of the email
C19_FetchedDataIsInStore ==
    /\ (Fetches("loadEmails") \/ Fetches("loadEmailsFresh")) =>
         \A k \in 1..Len(app.last.msg.emails) :
            LET e == app.last.msg.emails[k]
            IN /\ e.ID \in DOMAIN db.emails
               /\ \A m \in Range(e.MailboxIDs) : <<e.ID, m>> \in db.email_mailboxes
    /\ Fetches("loadEmail") => app.last.msg.email.ID \in DOMAIN db.email_bodies

(***************************************************************************)
(* The Store's calls on emails and bodies, one by one.                     *)
(***************************************************************************)
\* the body rows PurgeOldBodies removed
Purged == DOMAIN last.pre.email_bodies \ DOMAIN db.email_bodies

\* C21: PurgeOldBodies removes the body rows fetched before the cutoff and no
\* other, and changes no summary or membership row; GetEmailBody of an email
\* whose body was purged returns its summary with empty body fields, not nil
C21_PurgeKeepsSummaries ==
    last.op = "PurgeOldBodies" =>
      /\ db.emails = last.pre.emails
      /\ db.email_mailboxes = last.pre.email_mailboxes
      /\ \A id \in DOMAIN db.email_bodies :
            /\ id \in DOMAIN last.pre.email_bodies
            /\ db.email_bodies[id] = last.pre.email_bodies[id]
      /\ \A id \in Purged :
            last.pre.email_bodies[id].fetched_at < last.at - last.args.olderThan
      /\ last.ok =>
           \A id \in DOMAIN db.email_bodies :
              ~(db.email_bodies[id].fetched_at < last.at - last.args.olderThan)
      /\ \A id \in Purged \cap DOMAIN last.pre.emails :
            /\ GetEmailBody(db, id) # Nil
            /\ GetEmailBody(db, id) = ScanEmail(last.pre, id)
            /\ GetEmailBody(db, id).TextBody = ""
            /\ GetEmailBody(db, id).HTMLBody = ""

\* a purge removed the old body of one email and kept the newer body of
\* another, and the email of the purged body had non-empty body fields before
C21_Witness ==
    /\ last.op = "PurgeOldBodies"
    /\ \E id \in Purged \cap DOMAIN db.emails :
          GetEmailBody(last.pre, id).TextBody # ""
    /\ DOMAIN db.email_bodies # {}

\* the summary of a read email: the record without its body fields
SummaryOf(e) == [e EXCEPT !.TextBody = "", !.HTMLBody = ""]

\* C22: GetEmailBody(emailID) returns nil when the emails table has no row
\* for emailID, the summary with empty body fields when it has one and
\* email_bodies has none, and the summary with the stored body fields when
\* both exist; in no case an error
C22_GetEmailBodyThreeOutcomes ==
    [][(last' # last /\ last'.op = "GetEmailBody") =>
         LET id == last'.arg
             e == last'.result
         IN /\ id \notin DOMAIN db.emails => e = Nil
            /\ id \in DOMAIN db.emails =>
                 /\ e # Nil
                 /\ e.ID = id
                 /\ SummaryOf(e) = ScanEmail(db, id)
            /\ (id \in DOMAIN db.emails /\ id \notin DOMAIN db.email_bodies) =>
                 e.TextBody = "" /\ e.HTMLBody = ""
            /\ (id \in DOMAIN db.emails /\ id \in DOMAIN db.email_bodies) =>
                 /\ e.TextBody = db.email_bodies[id].text_body
                 /\ e.HTMLBody = db.email_bodies[id].html_body]_vars

\* an email with a summary row and no body row was read
C22_Witness ==
    /\ last.op = "GetEmailBody"
    /\ last.arg \in DOMAIN db.emails
    /\ last.arg \notin DOMAIN db.email_bodies
    /\ last.result # Nil

\* the rows of email id in the three email tables
EmailRowsOf(d, id) ==
    [summary |-> IF id \in DOMAIN d.emails THEN <<d.emails[id]>> ELSE <<>>,
     members |-> {p \in d.email_mailboxes : p[1] = id},
     body |-> IF id \in DOMAIN d.email_bodies THEN <<d.email_bodies[id]>> ELSE <<>>]

NoEmailRows == [summary |-> <<>>, members |-> {}, body |-> <<>>]

\* C23: after a successful DeleteEmail(emailID) the email has no body row, no
\* membership row and no summary row, and the rows of every other email and
\* the other tables are as before; after a failed one, at whichever of the
\* three DELETEs or at the COMMIT, all tables are as before the call
C23_DeleteEmailAllOrNothing ==
    last.op = "DeleteEmail" =>
      /\ last.ok =>
           /\ EmailRowsOf(db, last.args.emailID).summary = <<>>
           /\ EmailRowsOf(db, last.args.emailID).members = {}
           /\ EmailRowsOf(db, last.args.emailID).body = <<>>
           /\ \A id \in EmailIDs \ {last.args.emailID} :
                 EmailRowsOf(db, id) = EmailRowsOf(last.pre, id)
           /\ db.mailboxes = last.pre.mailboxes
           /\ db.sync_state = last.pre.sync_state
      /\ ~last.ok => db = last.pre
      /\ last.ok <=> last.fail = 0

\* an email with a summary, a membership and a body was deleted while another
\* email was cached
C23_Witness ==
    /\ last.op = "DeleteEmail"
    /\ last.ok
    /\ EmailRowsOf(last.pre, last.args.emailID).summary # <<>>
    /\ EmailRowsOf(last.pre, last.args.emailID).members # {}
    /\ EmailRowsOf(last.pre, last.args.emailID).body # <<>>
    /\ DOMAIN db.emails # {}

\* the Syncer call made only the full fetch of its entity type
FullSyncOnly(op, out) == Len(out.calls) = 1 /\ out.calls[1].call = FullCall(op)

\* C24: after a successful ClearCache the mailbox, email, membership, body and
\* sync-state tables have no row and GetSyncState returns nil for every
\* account, so the next SyncMailboxes and the next SyncEmails each make a
\* full sync, in either order
C24_ClearCacheForcesFullSync ==
    (last.op = "ClearCache" /\ last.ok) =>
      /\ db = EmptyDB
      /\ \A a \in Accounts : GetSyncState(db, a) = Nil
      /\ \A m \in MailboxIDs :
           /\ Bind(SyncMailboxes(db, remote, now, NoFailure), LAMBDA sm :
                /\ FullSyncOnly("SyncMailboxes", sm)
                /\ FullSyncOnly("SyncEmails",
                                SyncEmails(sm.db, remote, m, SyncLimit, now, NoFailure)))
           /\ Bind(SyncEmails(db, remote, m, SyncLimit, now, NoFailure), LAMBDA se :
                /\ FullSyncOnly("SyncEmails", se)
                /\ FullSyncOnly("SyncMailboxes",
                                SyncMailboxes(se.db, remote, now, NoFailure)))

\* a cache holding mailboxes, emails, a body and both sync tokens was cleared
C24_Witness ==
    /\ last.op = "ClearCache"
    /\ last.ok
    /\ GetSyncState(last.pre, AccountID) # Nil
    /\ GetSyncState(last.pre, AccountID).MailboxState # EmptyToken
    /\ GetSyncState(last.pre, AccountID).EmailState # EmptyToken
    /\ DOMAIN last.pre.email_bodies # {}
    /\ last.pre.email_mailboxes # {}

(***************************************************************************)
(* What the user sees of a failure.                                        *)
(***************************************************************************)
\* C25: when Update handles a sync completion that carries an error, the
\* mailboxes and emails on display, the open email, the view and the loading
\* indicator stay as they were, the error state is not set, and no command
\* is returned
C25_FailedSyncLeavesDisplay ==
    [][(/\ app' # app
        /\ app'.last.step = "update"
        /\ app'.last.msg.type = "syncCompleteMsg"
        /\ app'.last.msg.err # "nil") =>
          /\ app'.ui = [app.ui EXCEPT !.syncing = FALSE]
          /\ app'.ui.err = app.ui.err
          /\ app'.last.scheduled = {}
          /\ db' = db]_vars

\* a sync cycle failed while the cached mailboxes and emails were on display
\* with no error shown
C25_Witness ==
    /\ SyncHandled
    /\ app.last.msg.err # "nil"
    /\ app.ui.mailboxes # <<>>
    /\ app.ui.emails # <<>>
    /\ app.ui.viewState = "messages"
    /\ app.ui.err = "nil"

\* the cache-first loads of the foreground
ForegroundLoads == {"loadMailboxesCacheFirst", "loadEmails", "loadEmail"}

CachedMailboxesOf(d, id) == {p[2] : p \in {q \in d.email_mailboxes : q[1] = id}}

\* C27: when Update handles the completion of a successful archive and issues
\* the force refresh, the Store already lists the email in the mailboxes the
\* server has it in; and when Update has opened an unread email and sent the
\* request that marks it read, the Store already has it read
C27_ActionUpdatesStoreFirst ==
    /\ (/\ Handles("archiveThread")
        /\ app.last.msg.err = "nil"
        /\ "loadEmailsFresh" \in app.last.scheduled
        /\ app.last.arg \in DOMAIN db.emails
        /\ app.last.arg \in DOMAIN remote.emails) =>
          CachedMailboxesOf(db, app.last.arg) = Range(remote.emails[app.last.arg].MailboxIDs)
    /\ (/\ Handles("loadEmail")
        /\ app.last.msg.err = "nil"
        /\ app.last.msg.email.IsUnread
        /\ app.last.arg \in DOMAIN db.emails) =>
          ~IntToBool(db.emails[app.last.arg].is_unread)

\* the record of the list that SaveEmails stores last for its ID
LastOfItsID(emails, k) == \A j \in (k + 1)..Len(emails) : emails[j].ID # emails[k].ID

\* C28: after SaveEmails, the write of every sync and force refresh, has
\* stored a fetched record for an email, the row's is_unread and is_flagged
\* are the fetched values, whatever flags UpdateEmailFlags had set before
C28_ServerFlagsWin ==
    (last.op = "SaveEmails" /\ last.ok) =>
      \A k \in 1..Len(last.args.emails) :
         LET e == last.args.emails[k]
         IN LastOfItsID(last.args.emails, k) =>
              /\ e.ID \in DOMAIN db.emails
              /\ IntToBool(db.emails[e.ID].is_unread) = e.IsUnread
              /\ IntToBool(db.emails[e.ID].is_flagged) = e.IsFlagged

\* a fetched record replaced a row whose flags had both been changed locally
C28_Witness ==
    /\ last.op = "SaveEmails"
    /\ last.ok
    /\ \E k \in 1..Len(last.args.emails) :
         LET e == last.args.emails[k]
         IN /\ e.ID \in DOMAIN last.pre.emails
            /\ IntToBool(last.pre.emails[e.ID].is_unread) # e.IsUnread
            /\ IntToBool(last.pre.emails[e.ID].is_flagged) # e.IsFlagged
            /\ IntToBool(db.emails[e.ID].is_unread) = e.IsUnread
            /\ IntToBool(db.emails[e.ID].is_flagged) = e.IsFlagged

\* what a successful UpdateEmailFlags leaves alone: the other emails' rows and
\* the other tables
FlagsFrame ==
    /\ \A id \in DOMAIN last.pre.emails \ {last.args.emailID} :
          id \in DOMAIN db.emails /\ db.emails[id] = last.pre.emails[id]
    /\ DOMAIN db.emails \subseteq DOMAIN last.pre.emails \cup {last.args.emailID}
    /\ db.email_mailboxes = last.pre.email_mailboxes
    /\ db.email_bodies = last.pre.email_bodies
    /\ db.mailboxes = last.pre.mailboxes
    /\ db.sync_state = last.pre.sync_state

\* the row of the email is the row before with the two flags and updated_at set
FlagsSet ==
    db.emails[last.args.emailID] =
        [last.pre.emails[last.args.emailID] EXCEPT
            !.is_unread = BoolToInt(last.args.isUnread),
            !.is_flagged = BoolToInt(last.args.isFlagged),
            !.updated_at = last.at]

\* C29: after UpdateEmailFlags(emailID, u, f) succeeds the emails table has a
\* row for emailID with is_unread = u and is_flagged = f and otherwise as
\* before apart from updated_at, and no other email's row and no membership
\* or body row has changed
C29_FlagsUpsert ==
    (last.op = "UpdateEmailFlags" /\ last.ok) =>
      /\ last.args.emailID \in DOMAIN db.emails
      /\ last.args.emailID \in DOMAIN last.pre.emails => FlagsSet
      /\ FlagsFrame

\* C29 as the code has it: UpdateEmailFlags is an UPDATE of the row of
\* emailID; when the row exists it gets the two flags and updated_at, when it
\* does not nothing is written and the call still succeeds; in both cases
\* no other email's row and no membership or body row has changed
C29_FlagsUpdateOfExistingRow ==
    (last.op = "UpdateEmailFlags" /\ last.ok) =>
      /\ IF last.args.emailID \in DOMAIN last.pre.emails
         THEN last.args.emailID \in DOMAIN db.emails /\ FlagsSet
         ELSE db = last.pre
      /\ FlagsFrame

\* both flags of a cached email were changed while another email, memberships
\* and bodies were cached
C29_Witness ==
    /\ last.op = "UpdateEmailFlags"
    /\ last.ok
    /\ last.args.emailID \in DOMAIN last.pre.emails
    /\ db.emails[last.args.emailID].is_unread # last.pre.emails[last.args.emailID].is_unread
    /\ db.emails[last.args.emailID].is_flagged # last.pre.emails[last.args.emailID].is_flagged
    /\ DOMAIN db.emails # {last.args.emailID}
    /\ DOMAIN db.email_bodies # {}


-----------------------------------------------------------------------------
\* The counts of the SyncResult

\* the created, updated and destroyed counts of the call's entity type
CountsOf(op, result) ==
    IF op = "SyncMailboxes"
    THEN <<result.MailboxesCreated, result.MailboxesUpdated, result.MailboxesDestroyed>>
    ELSE <<result.EmailsCreated, result.EmailsUpdated, result.EmailsDestroyed>>

\* the by-ID fetches the call made
ByIDsCalls ==
    {i \in DOMAIN last.calls : last.calls[i].call \in {"GetMailboxesByIDs", "GetEmailsByIDs"}}

\* C30: a successful full sync reports created = the number of records fetched
\* and updated = destroyed = 0; a successful incremental sync reports the
\* sizes of the delta's created, updated and destroyed ID sets, and the created
\* and updated IDs are treated alike: one fetch by ID of both lists, every
\* fetched record upserted with its fetched fields.
C30_CountsReportTheDelta ==
    (last.op \in Syncs /\ last.err = "nil") =>
        IF ~Incremental
        THEN CountsOf(last.op, last.result) = <<Len(last.fetched.records), 0, 0>>
        ELSE /\ CountsOf(last.op, last.result) =
                    <<Cardinality(Range(last.changes.Created)),
                      Cardinality(Range(last.changes.Updated)),
                      Cardinality(Range(last.changes.Destroyed))>>
             /\ \A i \in ByIDsCalls :
                    last.calls[i].ids = last.changes.Created \o last.changes.Updated
             /\ Cardinality(ByIDsCalls) =
                    IF last.changes.Created \o last.changes.Updated = <<>> THEN 0 ELSE 1
             /\ last.fetched # Nil =>
                    \A i \in DOMAIN last.fetched.records :
                        StoredAsFetched(last.op, last.fetched.records[i], last.at)

\* an incremental sync whose delta creates one ID and updates another
C30_Witness ==
    /\ last.op \in Syncs /\ Incremental /\ last.err = "nil"
    /\ last.changes.Created # <<>>
    /\ last.changes.Updated # <<>>
    /\ Range(last.changes.Created) # Range(last.changes.Updated)
    /\ last.fetched # Nil /\ last.fetched.records # <<>>

\* a full sync that fetched records
C30_FullWitness ==
    /\ last.op \in Syncs /\ ~Incremental /\ last.err = "nil"
    /\ last.fetched.records # <<>>


-----------------------------------------------------------------------------
\* The two tokens of the sync state

\* the token the sync state of tables d holds for the other entity type
OtherTokenOf(d, op) ==
    TokenOf(GetSyncState(d, AccountID),
            IF op = "SyncMailboxes" THEN "SyncEmails" ELSE "SyncMailboxes")

\* C31: a SyncMailboxes call leaves the stored email token as it found it and
\* a SyncEmails call leaves the stored mailbox token as it found it, whether
\* the call ran full, incremental or fell back.
C31_SyncKeepsOtherToken ==
    last.op \in Syncs => OtherTokenOf(db, last.op) = OtherTokenOf(last.pre, last.op)


(***************************************************************************)
(* The Loader's loadEmail beside the background sync: the command function *)
(* runs in its own goroutine, so the Syncer's Store calls and the server's *)
(* changes fall between its client.GetEmail and its SaveEmailBody.         *)
(***************************************************************************)
\* no loadEmail command has been started
LoaderIdle == [ui |-> "none", pc |-> "idle"]

InitLoad ==
    /\ db \in {EmptyDB, WarmDB}
    /\ remote = InitRemote
    /\ now = 1
    /\ last = NoCall
    /\ tx = NoTx
    /\ app = LoaderIdle

\* loadEmail of an email of the displayed list (its summary is cached): the
\* cache has no body for it and client.GetEmail returns the email
LoadEmailFetches ==
    /\ app.pc = "idle"
    /\ \E emailID \in DOMAIN db.emails :
         \E c \in {GetCachedEmailBody(db, emailID, FALSE)} :
            /\ ~(c.email # Nil /\ (c.email.TextBody # "" \/ c.email.HTMLBody # ""))
            /\ emailID \in DOMAIN remote.emails
            /\ app' = [ui |-> "none", pc |-> "fetched",
                       email |-> ClientGetEmail(remote, emailID)]
    /\ UNCHANGED <<db, remote, now, last, tx>>

\* a.store.SaveEmailBody(email), its error dropped
LoadEmailSaves ==
    /\ app.pc = "fetched"
    /\ \E fail \in 0..1 :
         db' = SaveEmailBody(db, app.email, now, fail).db
    /\ app' = [ui |-> "none", pc |-> "saved", email |-> app.email]
    /\ UNCHANGED <<remote, now, last, tx>>

NextLoad ==
    \/ RemoteCreateMailbox
    \/ RemoteRenameMailbox
    \/ RemoteDestroyMailbox
    \/ RemoteCreateEmail
    \/ RemoteMoveEmail
    \/ RemoteSetKeywords
    \/ RemoteDestroyEmail
    \/ Tick
    \/ CallSyncMailboxes
    \/ CallSyncEmails
    \/ LoadEmailFetches
    \/ LoadEmailSaves

SpecLoad == InitLoad /\ [][NextLoad]_vars

\* the emails that have a body row or a membership row
EmailsOfBodiesAndMemberships(d) ==
    DOMAIN d.email_bodies \cup {em[1] : em \in d.email_mailboxes}

\* C32: in every state every body row and every membership row belongs to an
\* email that has a summary row, also when the sync's DeleteEmail falls between
\* the Loader's fetch of that email and its SaveEmailBody.
C32_RowsReferToASummary == EmailsOfBodiesAndMemberships(db) \subseteq DOMAIN db.emails


-----------------------------------------------------------------------------
\* Mailboxes that leave the Store

\* the mailboxes the call removed from the Store
RemovedMailboxes == DOMAIN last.pre.mailboxes \ DOMAIN db.mailboxes

\* C33: after a SyncMailboxes call that removed a mailbox from the Store (by
\* DeleteMailbox of a destroyed ID or by a full replace without it) no
\* membership row names that mailbox and GetEmails of it returns nothing.
C33_RemovedMailboxHasNoEmails ==
    (last.op = "SyncMailboxes" /\ last.err = "nil") =>
        \A m \in RemovedMailboxes :
            /\ \A e \in EmailIDs : <<e, m>> \notin db.email_mailboxes
            /\ GetEmails(db, m, PageSize) = <<>>


-----------------------------------------------------------------------------
\* Loads that complete out of order

\* the commands that end in a mailboxesLoadedMsg or an emailsLoadedMsg
LoadCmds ==
    {"loadMailboxesCacheFirst", "reloadMailboxes", "loadEmails", "loadEmailsFresh",
     "reloadEmails"}

NoLoadInFlight == \A c \in BagToSet(app.cmds) : c.cmd \notin LoadCmds

\* the ID of the mailbox the folder view has selected
SelectedMailboxID == app.ui.mailboxes[app.ui.selectedMailbox + 1].ID

\* C34: when Update has put the result of a load of emails on display and no
\* load is in flight any more, that load was made for the mailbox now
\* selected: the result of an earlier load for another mailbox does not
\* replace the list.
C34_ListBelongsToSelectedMailbox ==
    (/\ app.last.step = "update"
     /\ app.last.msg.type = "emailsLoadedMsg"
     /\ app.last.msg.err = "nil"
     /\ NoLoadInFlight
     /\ app.ui.selectedMailbox < Len(app.ui.mailboxes))
        => app.last.arg = SelectedMailboxID


-----------------------------------------------------------------------------
\* The error on display

\* C35: when Update has handled the completion of a load that succeeded, no
\* error is on display any more: an error set by an earlier load or action
\* completion is cleared and the data is shown again.
C35_SuccessfulLoadClearsError ==
    (/\ app.last.step = "update"
     /\ app.last.msg.type \in {"mailboxesLoadedMsg", "emailsLoadedMsg", "emailLoadedMsg"}
     /\ app.last.msg.err = "nil")
        => app.ui.err = "nil"


(***************************************************************************)
(* The sync cycles of one run: the server no longer changes, no key is     *)
(* pressed and no failure is injected.  The Bubble Tea runtime runs every  *)
(* command it was handed and passes every message to Update, so each       *)
(* command step and each handler is weakly fair.                           *)
(***************************************************************************)
\* the server whose delta calls always fail
StaleTokenRemote == [f \in DOMAIN AppRemote \cup {"cannotCalculateChanges"} |->
                        IF f \in DOMAIN AppRemote THEN AppRemote[f] ELSE TRUE]

InitCycle ==
    /\ db \in {EmptyDB, FirstRunDB}
    /\ remote \in {AppRemote, StaleTokenRemote}
    /\ now = 1
    /\ last = NoCall
    /\ tx = NoTx
    /\ app = [ui |-> NewApp, cmds |-> SetToBag({Cmd("loadMailboxesCacheFirst", "")}),
              events |-> MaxEvents, last |-> [step |-> "init"]]

\* a handler that returns a batch finds room among the commands in flight
CycleRoom == BagCardinality(app.cmds) < MaxCmds

CycleHandleMailboxesLoaded == CycleRoom /\ HandleMailboxesLoaded

CycleHandleSyncComplete == CycleRoom /\ HandleSyncComplete

NextCycle ==
    \/ RunLoadMailboxesCacheFirst
    \/ RunLoadEmails
    \/ RunReloadMailboxes
    \/ RunReloadEmails
    \/ RunSyncMailboxes
    \/ RunSyncEmails
    \/ CycleHandleMailboxesLoaded
    \/ HandleEmailsLoaded
    \/ CycleHandleSyncComplete

RuntimeFairness ==
    /\ WF_vars(RunLoadMailboxesCacheFirst)
    /\ WF_vars(RunLoadEmails)
    /\ WF_vars(RunReloadMailboxes)
    /\ WF_vars(RunReloadEmails)
    /\ WF_vars(RunSyncMailboxes)
    /\ WF_vars(RunSyncEmails)
    /\ WF_vars(CycleHandleMailboxesLoaded)
    /\ WF_vars(HandleEmailsLoaded)
    /\ WF_vars(CycleHandleSyncComplete)

SpecCycle == InitCycle /\ [][NextCycle]_vars /\ RuntimeFairness

\* C36: with the server no longer changing, the chain of sync cycle, reload
\* of the mailboxes from the cache and next sync cycle comes to an end: from
\* some point on no sync cycle is in flight, also when every delta call
\* fails and every cycle falls back to a full sync.
C36_SyncCyclesEnd == <>[](SyncsInFlight = 0)


-----------------------------------------------------------------------------
\* Replaying a delta

\* the last call was an incremental sync that applied its delta and failed on
\* SaveSyncState, and the server has not changed since
FailedBeforeToken ==
    /\ last.op \in Syncs /\ Incremental /\ last.err = "SaveSyncState"
    /\ RemoteState(last.op) = last.changes.NewState

\* the same call made on tables d at time at, nothing failing
SyncAgain(d, at) ==
    IF last.op = "SyncMailboxes" THEN SyncMailboxes(d, remote, at, NoFailure)
    ELSE SyncEmails(d, remote, last.mailbox, SyncLimit, at, NoFailure)

\* C37 as stated: the next sync replays the delta and leaves the Store as the
\* failed call would have left it had its SaveSyncState succeeded.
C37_ReplayEndsInSameState ==
    FailedBeforeToken =>
        /\ SyncAgain(db, now).err = "nil"
        /\ SyncAgain(db, now).changes = last.changes
        /\ SyncAgain(db, now).db = SyncAgain(last.pre, last.at).db

\* C37 amended: the next sync replays the same delta, succeeds and leaves the
\* Store as a single successful application made at the time of the replay
\* leaves it: the same rows and token, updated_at and last_sync being the
\* time of the replay.
C37_ReplayEqualsSingleApplication ==
    FailedBeforeToken =>
        /\ SyncAgain(db, now).err = "nil"
        /\ SyncAgain(db, now).changes = last.changes
        /\ SyncAgain(db, now).db = SyncAgain(last.pre, now).db
        /\ TokenOf(GetSyncState(SyncAgain(db, now).db, AccountID), last.op) =
              last.changes.NewState

\* a delta with an upsert is replayed after the clock has moved on
C37_Witness ==
    /\ FailedBeforeToken
    /\ last.changes.Created \o last.changes.Updated # <<>>
    /\ last.fetched # Nil /\ last.fetched.records # <<>>
    /\ PostToken # last.changes.NewState
    /\ now > last.at


(***************************************************************************)
(* A start on the cache of an earlier run, the server having changed while *)
(* the program was not running.                                            *)
(***************************************************************************)
\* the cache a synced run leaves: mailboxes, the inbox's emails and both tokens
SyncedAppDB ==
    Bind(SyncMailboxes(EmptyDB, AppRemote, 1, NoFailure).db, LAMBDA d :
      SyncEmails(d, AppRemote, "m1", SyncLimit, 1, NoFailure).db)

\* another device has moved e1 to the archive and destroyed the inbox
InboxGoneRemote ==
    Bind(LogEmail([AppRemote EXCEPT !.emails["e1"].MailboxIDs = <<"m2">>],
                  "e1", "updated"), LAMBDA r :
      LogMailbox([r EXCEPT !.mailboxes = Remove(@, "m1")], "m1", "destroyed"))

InitStale ==
    /\ db = SyncedAppDB
    /\ remote = InboxGoneRemote
    /\ now = 1
    /\ last = NoCall
    /\ tx = NoTx
    /\ app = [ui |-> NewApp, cmds |-> SetToBag({Cmd("loadMailboxesCacheFirst", "")}),
              events |-> 0, last |-> [step |-> "init"]]

SpecStale == InitStale /\ [][NextApp]_vars

\* C38: whenever the mailbox list of the UI is non-empty, selectedMailbox is
\* an index into it, also after a sync-triggered reload has replaced the list
\* by a shorter one without an inbox.
C38_SelectedMailboxIsValid ==
    Len(app.ui.mailboxes) > 0 =>
        app.ui.selectedMailbox \in 0..(Len(app.ui.mailboxes) - 1)


-----------------------------------------------------------------------------
\* The two halves of a sync cycle

\* the remote calls of SyncEmails
EmailCalls == {"GetEmailChanges", "EmailsWithState", "GetEmailsByIDs"}

\* the step has written no email, membership or body row
EmailTablesUnchanged ==
    /\ db'.emails = db.emails
    /\ db'.email_mailboxes = db.email_mailboxes
    /\ db'.email_bodies = db.email_bodies

\* C39: in a sync cycle SyncMailboxes returns before SyncEmails starts and
\* writes no email rows; SyncEmails runs only in a cycle whose SyncMailboxes
\* returned its result without error; and a cycle whose SyncMailboxes failed
\* ends with that error, having made no email delta or email fetch call and
\* written no email row.
C39_MailboxSyncGatesEmailSync ==
    [][/\ (app' # app /\ app'.last.step = "sync") =>
             /\ EmailTablesUnchanged
             /\ \E c \in BagToSet(app'.cmds) :
                    c.cmd = "syncInBackground" /\ c.pc = "emails" /\ c.res # Nil
       /\ (app' # app /\ app'.last.step = "cmd" /\ app'.last.cmd = "syncInBackground") =>
             IF \E c \in BagToSet(app.cmds) :
                   /\ c.cmd = "syncInBackground" /\ c.pc = "emails" /\ c.res # Nil
                   /\ c.res = app'.last.msg.mailboxResult
             THEN TRUE
             ELSE /\ app'.last.msg.mailboxResult = Nil
                  /\ app'.last.msg.emailResult = Nil
                  /\ app'.last.msg.err # "nil"
                  /\ Range(app'.last.calls) \cap EmailCalls = {}
                  /\ EmailTablesUnchanged]_vars

\* a cycle has ended on the error of its mailbox sync, emails being cached
C39_Witness ==
    /\ Ran("syncInBackground")
    /\ app.last.msg.mailboxResult = Nil
    /\ app.last.msg.err # "nil"
    /\ DOMAIN db.emails # {}

=============================================================================
